---- MODULE Spec2Model ----
(***************************************************************************)
(* The location-forwarding pipeline of the Traccar web client:             *)
(*   - the Background Forwarding Agent, the service worker that receives   *)
(*     the page's commands and calls the relay endpoint /api/log-traccar   *)
(*     (src/unnamed/part_007);                                             *)
(*   - the Foreground Location Watcher, the page component that watches    *)
(*     the geolocation sensor and posts commands to the service worker     *)
(*     (src/unnamed/part_005, the component that starts at line 435).      *)
(* Times are milliseconds, as Date.now() gives them.                       *)
(***************************************************************************)
EXTENDS Integers, Sequences, FiniteSets, TLC

(***************************************************************************)
(* Bounds of the model.                                                    *)
(***************************************************************************)
\* how many times the clock advances (by one second each time)
MaxTicks == 2
\* how many location-update commands the Agent handles in one run
MaxSamples == 2
\* how many commands may wait in the service worker's message queue
MaxQueue == 2
\* how many messages may wait in one page's message queue
MaxInbox == 2

(***************************************************************************)
(* Program constants.                                                      *)
(***************************************************************************)
\* the factor of `config.intervalSeconds * 1000`
MsPerSecond == 1000
\* intervalSeconds of the service worker's initial config
DefaultIntervalSeconds == 10

\* Date.now() when the model starts. The real clock is far beyond every
\* interval the model uses, so `now - 0` is never inside a throttle window.
Epoch == 100 * MsPerSecond

VARIABLES
  \* ---- service worker globals (part_007:3-10)
  config,                      \* [deviceId, serverUrl, intervalSeconds]
  isCurrentlyTracking,         \* the spec's isForwardingEnabled
  lastAttemptedSendTimestamp,  \* the spec's lastAttemptTimestampMs
  isSendingLocationData,       \* the spec's isDeliveryInFlight
  \* ---- the service worker's environment
  now,                         \* Date.now()
  pending,                     \* fetch('/api/log-traccar') calls begun and not yet settled
  \* ---- the control channel and the pages
  clients,                     \* the open tabs: what self.clients.matchAll gives
  swActive,                    \* registration.active is set: the service worker is activated
  localStorage,                \* window.localStorage of the origin, shared by its tabs
  toAgent,                     \* commands posted to the service worker, not yet handled
  inbox,                       \* per tab: messages posted to it, not yet handled
  page,                        \* per tab: the state of the TraccarWebClient component
  script,                      \* how far the end-to-end scenario has come (0 outside it)
  \* ---- observation of the run (history, read by the properties only)
  emitted,                     \* the messages the last handler of the service worker sent
  fate,                        \* per location-update handled: what became of the sample
  callLog,                     \* per relay call begun: its body and its terminal messages
  prevCallAt,                  \* start time of the latest relay call since the last start/stop, or NoTime
  sessionCalls,                \* how many relay calls were begun since the last start/stop
  stoppedCalls                 \* the relay calls that were outstanding when a stop-tracking was handled

agentVars == <<config, isCurrentlyTracking, lastAttemptedSendTimestamp, isSendingLocationData>>
envVars == <<now, pending>>
pageVars == <<clients, swActive, localStorage, toAgent, page>>
obsVars == <<emitted, fate, callLog, prevCallAt, sessionCalls, stoppedCalls>>
vars == <<agentVars, envVars, pageVars, script, inbox, obsVars>>

NoTime == 0 - 1

(***************************************************************************)
(* Values.                                                                 *)
(***************************************************************************)
\* DEFAULT_SERVER_URL of the page
DEFAULT_SERVER_URL == "http://65.21.243.46:5055"
HttpUrl == "http://example.com:5055"
FtpUrl == "ftp://example.com"

\* What `new URL(s).protocol` gives for the strings of the model; "throws"
\* when the constructor throws (the empty string, a string with no scheme).
UrlProtocol(s) ==
  CASE s = HttpUrl -> "http:"
    [] s = DEFAULT_SERVER_URL -> "http:"
    [] s = "https://traccar.example" -> "https:"
    [] s = FtpUrl -> "ftp:"
    [] OTHER -> "throws"

isValidHttpUrl(s) == UrlProtocol(s) \in {"http:", "https:"}

\* The spec's validity of a TrackingConfiguration.
ValidConfig(c) ==
  /\ c.deviceId # ""
  /\ isValidHttpUrl(c.serverUrl)
  /\ c.intervalSeconds >= 1

Cfg(d, u, i) == [deviceId |-> d, serverUrl |-> u, intervalSeconds |-> i]

\* `config` as the service worker's script sets it when it is loaded
InitialConfig == Cfg("", "", DefaultIntervalSeconds)

\* { ...c, ...p }: the fields of p override those of c
Merge(c, p) == [k \in DOMAIN c |-> IF k \in DOMAIN p THEN p[k] ELSE c[k]]

\* The configurations a start-tracking command may carry.
StartConfigs ==
  { Cfg("dev1", HttpUrl, 1), Cfg("dev1", HttpUrl, 2),
    Cfg("", HttpUrl, 1), Cfg("dev1", FtpUrl, 1), Cfg("dev1", HttpUrl, 0) }

\* The partial configurations an update-config command may carry.
ConfigUpdates == { [intervalSeconds |-> 1], [intervalSeconds |-> 2] }

\* The body of a location-update: sample n with the destination the page
\* put into it.
Payload(n, u, d) == [fix |-> n, serverUrl |-> u, deviceId |-> d]

\* A command on its way to the service worker: { command, data }
Command(c, d) == [command |-> c, data |-> d]
NoData == <<>>

Tabs == {"tabA", "tabB"}

(***************************************************************************)
(* Messages of the service worker to the pages. `call` is the relay call a *)
(* success or error message reports (0 for every other message); the real  *)
(* message carries no such field, the properties read it. `text` is the    *)
(* kind of the message's text, not its wording.                            *)
(***************************************************************************)
Msg(t, tracking, text, call) == [type |-> t, isTracking |-> tracking, text |-> text, call |-> call]
StatusMsg(text) == Msg("status", FALSE, text, 0)
SuccessMsg(text, call) == Msg("success", FALSE, text, call)
ErrorMsg(text, call) == Msg("error", FALSE, text, call)
TrackingStatusMsg(b, text) == Msg("tracking_status", b, text, 0)

IsTerminal(m) == m.type \in {"success", "error"}
TerminalTypes(ms) ==
  LET t == SelectSeq(ms, IsTerminal) IN [i \in 1..Len(t) |-> t[i].type]

\* The variant of sendMessageToClients that posts to one client only.
sendMessageToClients_OneClient(ms) ==
  /\ \A p \in clients : Len(inbox[p]) + Len(ms) <= MaxInbox
  /\ emitted' = ms
  /\ inbox' = [p \in Tabs |-> IF clients # {} /\ p = (CHOOSE q \in clients : TRUE)
                              THEN inbox[p] \o ms ELSE inbox[p]]

\* sendMessageToClients (part_007:19-24) for the messages ms of one handler:
\* each is posted to every client.
sendMessageToClients(ms) ==
  /\ \A p \in clients : Len(inbox[p]) + Len(ms) <= MaxInbox
  /\ emitted' = ms
  /\ inbox' = [p \in Tabs |-> IF p \in clients THEN inbox[p] \o ms ELSE inbox[p]]

(***************************************************************************)
(* The relay endpoint as the service worker sees it: how one fetch of      *)
(* /api/log-traccar settles.                                               *)
(***************************************************************************)
RelayFailures ==
  { "validation", "connection", "timeout", "remote-rejected", "tls",
    "network-exception", "bad-json" }
RelayClasses == {"success"} \cup RelayFailures

\* fetch(...) rejects: the request got no HTTP response
FetchThrows(class) == class = "network-exception"
\* response.json() rejects: the body is not JSON
JsonThrows(class) == class = "bad-json"
\* response.ok: route.ts answers 200 exactly when sendTraccarData succeeded
ResponseOk(class) == class = "success"
\* resultJson.success
ResultSuccess(class) == class = "success"

\* What the remote tracking server answered when it answered with an error:
\* its status, and whether response.statusText is empty (as it is over
\* HTTP/2), in which case sendTraccarData writes "Código <status>".
RemoteAnswers == [status : {404, 500, 503}, statusTextEmpty : BOOLEAN]

\* The message of the result of sendTraccarData (actions.ts:28-133), as the
\* texts route.ts searches it for: "inválid" or "obrigatório", "Traccar",
\* "falha no servidor Traccar", "código" followed by three digits (0: none)
\* and "tempo esgotado".  The body of the remote answer, which the message
\* quotes, is taken to hold none of them.
ResultMessage(class, remote) ==
  [invalid |-> class = "validation",
   traccar |-> class \in {"connection", "timeout", "remote-rejected"},
   falha |-> class = "remote-rejected",
   codigo |-> IF class = "remote-rejected" /\ remote.statusTextEmpty THEN remote.status ELSE 0,
   tempoEsgotado |-> class = "timeout"]

\* the status route.ts answers with for a result (route.ts:36-56)
StatusCode(success, m) ==
  IF success THEN 200
  ELSE IF m.invalid THEN 400
  ELSE IF m.traccar /\ (m.codigo # 0 \/ m.falha)
  THEN IF m.codigo # 0
       THEN IF m.codigo >= 400 /\ m.codigo < 500 THEN 400
            ELSE IF m.codigo >= 500 THEN 502
            ELSE 500
       ELSE IF m.tempoEsgotado THEN 504
       ELSE 500
  ELSE 500

\* the HTTP status of the answer of POST /api/log-traccar (route.ts:19-69);
\* a body that fails the schema is answered 400 like a result that says
\* "inválid"
HttpStatus(class, remote) == StatusCode(ResultSuccess(class), ResultMessage(class, remote))

(***************************************************************************)
(* The state of one tab's TraccarWebClient component (part_005:458-475).   *)
(* watch is locationWatchIdRef with the values the callbacks given to      *)
(* watchPosition closed over: they are those of the render in which the    *)
(* start button was clicked.                                               *)
(***************************************************************************)
NoWatch ==
  [active |-> FALSE, isPageTracking |-> FALSE, deviceId |-> "", serverUrl |-> "",
   intervalSeconds |-> 0, statusMessage |-> ""]

NoToast == [title |-> "none", call |-> 0]
Toast(title) == [title |-> title, call |-> 0]

FreshPage(d, geo) ==
  [ mounted |-> TRUE,                \* isMountedRef.current
    registered |-> FALSE,            \* serviceWorkerRef.current is set
    listening |-> FALSE,             \* navigator.serviceWorker.onmessage is set
    hasGeolocation |-> geo,          \* 'geolocation' in navigator
    deviceId |-> d,
    serverUrl |-> DEFAULT_SERVER_URL,
    intervalSeconds |-> DefaultIntervalSeconds,
    isUiDisabled |-> FALSE,
    isServiceWorkerActive |-> FALSE,
    isPageTracking |-> FALSE,
    isSwForwarding |-> FALSE,
    statusMessage |-> "waiting",
    errorMessage |-> "null",
    toast |-> NoToast,               \* the last toast shown
    watch |-> NoWatch ]

\* A tab that is not open.
ClosedPage == [FreshPage("", FALSE) EXCEPT !.mounted = FALSE]

\* A tab whose registration of the service worker has resolved.
RegisteredPage(d) ==
  [FreshPage(d, TRUE) EXCEPT !.registered = TRUE, !.listening = TRUE,
                             !.isServiceWorkerActive = TRUE, !.statusMessage = "registered"]

(***************************************************************************)
(* window.localStorage. An item is the set of its values: empty when       *)
(* getItem gives null. The text of traccarIntervalSeconds is a sequence of *)
(* characters, so that toString and parseInt are conversions. `available`  *)
(* is FALSE when every access to the storage throws.                       *)
(***************************************************************************)
Digits == <<"0", "1", "2", "3", "4", "5", "6", "7", "8", "9">>

\* Number.prototype.toString of a non-negative integer (part_005:605 calls
\* it on nothing else)
RECURSIVE toString(_)
toString(n) ==
  IF n < 10 THEN <<Digits[n + 1]>>
  ELSE toString(n \div 10) \o <<Digits[(n % 10) + 1]>>

\* The storage after a first visit with no device id typed: the load
\* effect found no URL and wrote the default (part_005:584-586), the save
\* effects wrote the initial state (part_005:603-605).
DefaultStorage ==
  [ available |-> TRUE,
    traccarDeviceId |-> {},
    traccarServerUrl |-> {DEFAULT_SERVER_URL},
    traccarIntervalSeconds |-> {toString(DefaultIntervalSeconds)} ]

Init ==
  /\ config = InitialConfig
  /\ isCurrentlyTracking = FALSE
  /\ lastAttemptedSendTimestamp = 0
  /\ isSendingLocationData = FALSE
  /\ now = Epoch
  /\ pending = {}
  /\ clients = {}
  /\ swActive = TRUE
  /\ toAgent = <<>>
  /\ inbox = [p \in Tabs |-> <<>>]
  /\ page = [p \in Tabs |-> ClosedPage]
  /\ script = 0
  /\ emitted = <<>>
  /\ fate = <<>>
  /\ callLog = <<>>
  /\ prevCallAt = NoTime
  /\ sessionCalls = 0
  /\ stoppedCalls = {}
  /\ localStorage = DefaultStorage

\* callLogTraccarApi as it would be without its in-flight guard: the
\* variant the in-flight properties must tell from the code.
callLogTraccarApi_NoGuard(locationData) ==
  /\ isSendingLocationData' = TRUE
  /\ sendMessageToClients(<<StatusMsg("attempting")>>)
  /\ pending' = pending \cup {Len(callLog) + 1}
  /\ callLog' = Append(callLog, [data |-> locationData, terminal |-> <<>>])
  /\ prevCallAt' = now
  /\ sessionCalls' = sessionCalls + 1
  /\ fate' = Append(fate, "sent")

(***************************************************************************)
(* callLogTraccarApi, up to its await of fetch (part_007:26-41).           *)
(***************************************************************************)
callLogTraccarApi(locationData) ==
  IF isSendingLocationData
  THEN /\ UNCHANGED <<isSendingLocationData, pending, callLog, prevCallAt, sessionCalls>>
       /\ sendMessageToClients(<<>>)
       /\ fate' = Append(fate, "inflight")
  ELSE /\ isSendingLocationData' = TRUE
       /\ sendMessageToClients(<<StatusMsg("attempting")>>)
       /\ pending' = pending \cup {Len(callLog) + 1}
       /\ callLog' = Append(callLog, [data |-> locationData, terminal |-> <<>>])
       /\ prevCallAt' = now
       /\ sessionCalls' = sessionCalls + 1
       /\ fate' = Append(fate, "sent")

(***************************************************************************)
(* processLocationDataFromPage (part_007:59-76).                           *)
(***************************************************************************)
\* The variant without the throttle comparison, which the throttle
\* properties must tell from the code.
processLocationDataFromPage_NoThrottle(data) ==
  IF ~isCurrentlyTracking \/ config.deviceId = "" \/ config.serverUrl = ""
  THEN /\ UNCHANGED <<lastAttemptedSendTimestamp, isSendingLocationData, pending, callLog, prevCallAt, sessionCalls>>
       /\ sendMessageToClients(<<>>)
       /\ fate' = Append(fate, "ignored")
  ELSE /\ lastAttemptedSendTimestamp' = now
       /\ callLogTraccarApi(data)

\* The variant in which a sample inside the throttle window still advances
\* the timestamp.
processLocationDataFromPage_ThrottleStamps(data) ==
  IF ~isCurrentlyTracking \/ config.deviceId = "" \/ config.serverUrl = ""
  THEN /\ UNCHANGED <<lastAttemptedSendTimestamp, isSendingLocationData, pending, callLog, prevCallAt, sessionCalls>>
       /\ sendMessageToClients(<<>>)
       /\ fate' = Append(fate, "ignored")
  ELSE IF now - lastAttemptedSendTimestamp < config.intervalSeconds * MsPerSecond
  THEN /\ lastAttemptedSendTimestamp' = now
       /\ UNCHANGED <<isSendingLocationData, pending, callLog, prevCallAt, sessionCalls>>
       /\ sendMessageToClients(<<>>)
       /\ fate' = Append(fate, "throttled")
  ELSE /\ lastAttemptedSendTimestamp' = now
       /\ callLogTraccarApi(data)

processLocationDataFromPage(data) ==
  IF ~isCurrentlyTracking \/ config.deviceId = "" \/ config.serverUrl = ""
  THEN /\ UNCHANGED <<lastAttemptedSendTimestamp, isSendingLocationData, pending, callLog, prevCallAt, sessionCalls>>
       /\ sendMessageToClients(<<>>)
       /\ fate' = Append(fate, "ignored")
  ELSE IF now - lastAttemptedSendTimestamp < config.intervalSeconds * MsPerSecond
  THEN /\ UNCHANGED <<lastAttemptedSendTimestamp, isSendingLocationData, pending, callLog, prevCallAt, sessionCalls>>
       /\ sendMessageToClients(<<>>)
       /\ fate' = Append(fate, "throttled")
  ELSE /\ lastAttemptedSendTimestamp' = now
       /\ callLogTraccarApi(data)

(***************************************************************************)
(* The message listener (part_007:79-109), one definition per command.     *)
(* They say what the handler does to the service worker, its environment,  *)
(* the pages' queues and the observation.                                  *)
(***************************************************************************)
\* The variant of the start-tracking branch that keeps the throttle timestamp.
StartTracking_KeepsTimestamp(cfg) ==
  /\ config' = Merge(config, cfg)
  /\ isCurrentlyTracking' = TRUE
  /\ sendMessageToClients(<<TrackingStatusMsg(TRUE, "ready")>>)
  /\ prevCallAt' = NoTime
  /\ sessionCalls' = 0
  /\ UNCHANGED <<lastAttemptedSendTimestamp, isSendingLocationData, envVars, fate, callLog,
                 stoppedCalls>>

StartTracking(cfg) ==
  /\ config' = Merge(config, cfg)
  /\ isCurrentlyTracking' = TRUE
  /\ lastAttemptedSendTimestamp' = 0
  /\ sendMessageToClients(<<TrackingStatusMsg(TRUE, "ready")>>)
  /\ prevCallAt' = NoTime
  /\ sessionCalls' = 0
  /\ UNCHANGED <<isSendingLocationData, envVars, fate, callLog, stoppedCalls>>

\* The variant of the stop-tracking branch that leaves forwarding enabled.
StopTracking_KeepsForwarding ==
  /\ isSendingLocationData' = FALSE
  /\ sendMessageToClients(<<TrackingStatusMsg(FALSE, "stopped")>>)
  /\ prevCallAt' = NoTime
  /\ sessionCalls' = 0
  /\ stoppedCalls' = stoppedCalls \cup pending
  /\ UNCHANGED <<config, isCurrentlyTracking, lastAttemptedSendTimestamp, envVars, fate, callLog>>

\* The variant of the stop-tracking branch that tells the pages nothing.
StopTracking_Silent ==
  /\ isCurrentlyTracking' = FALSE
  /\ isSendingLocationData' = FALSE
  /\ sendMessageToClients(<<>>)
  /\ prevCallAt' = NoTime
  /\ sessionCalls' = 0
  /\ stoppedCalls' = stoppedCalls \cup pending
  /\ UNCHANGED <<config, lastAttemptedSendTimestamp, envVars, fate, callLog>>

StopTracking ==
  /\ isCurrentlyTracking' = FALSE
  /\ isSendingLocationData' = FALSE
  /\ sendMessageToClients(<<TrackingStatusMsg(FALSE, "stopped")>>)
  /\ prevCallAt' = NoTime
  /\ sessionCalls' = 0
  /\ stoppedCalls' = stoppedCalls \cup pending
  /\ UNCHANGED <<config, lastAttemptedSendTimestamp, envVars, fate, callLog>>

LocationUpdate(data) ==
  /\ IF isCurrentlyTracking
     THEN processLocationDataFromPage(data)
     ELSE /\ UNCHANGED <<lastAttemptedSendTimestamp, isSendingLocationData, pending, callLog, prevCallAt, sessionCalls>>
          /\ sendMessageToClients(<<>>)
          /\ fate' = Append(fate, "ignored")
  /\ UNCHANGED <<config, isCurrentlyTracking, now, stoppedCalls>>

\* The variant of the get-status branch that always reports "not tracking".
GetStatus_AlwaysInactive ==
  /\ sendMessageToClients(<<TrackingStatusMsg(FALSE, "inactive")>>)
  /\ UNCHANGED <<agentVars, envVars, fate, callLog, prevCallAt, sessionCalls, stoppedCalls>>

GetStatus ==
  /\ sendMessageToClients(<<TrackingStatusMsg(isCurrentlyTracking,
                              IF isCurrentlyTracking THEN "active" ELSE "inactive")>>)
  /\ UNCHANGED <<agentVars, envVars, fate, callLog, prevCallAt, sessionCalls, stoppedCalls>>

\* The variant of the update-config branch that also resets the throttle.
UpdateConfig_ResetsThrottle(p) ==
  /\ config' = Merge(config, p)
  /\ lastAttemptedSendTimestamp' = 0
  /\ sendMessageToClients(<<StatusMsg("config-updated")>>)
  /\ UNCHANGED <<isCurrentlyTracking, isSendingLocationData,
                 envVars, fate, callLog, prevCallAt, sessionCalls, stoppedCalls>>

UpdateConfig(p) ==
  /\ config' = Merge(config, p)
  /\ sendMessageToClients(<<StatusMsg("config-updated")>>)
  /\ UNCHANGED <<isCurrentlyTracking, lastAttemptedSendTimestamp, isSendingLocationData,
                 envVars, fate, callLog, prevCallAt, sessionCalls, stoppedCalls>>

(***************************************************************************)
(* callLogTraccarApi after its await (part_007:43-55): the fetch of call   *)
(* id settles as `class` says.                                             *)
(***************************************************************************)
\* The variant whose try has no catch: a rejected fetch or a body that is
\* not JSON reports nothing.
TerminalMessages_NoCatch(id, class) ==
  IF FetchThrows(class) \/ JsonThrows(class)
  THEN <<>>
  ELSE IF ResponseOk(class) /\ ResultSuccess(class)
  THEN <<SuccessMsg("sent", id)>>
  ELSE <<ErrorMsg("api-error", id)>>

\* The variant that reports success for every answer that is JSON, whatever
\* its status and its success field.
TerminalMessages_AnyAnswer(id, class) ==
  IF FetchThrows(class) \/ JsonThrows(class)
  THEN <<ErrorMsg("network-error", id)>>
  ELSE <<SuccessMsg("sent", id)>>

TerminalMessages(id, class) ==
  IF FetchThrows(class) \/ JsonThrows(class)
  THEN <<ErrorMsg("network-error", id)>>
  ELSE IF ResponseOk(class) /\ ResultSuccess(class)
  THEN <<SuccessMsg("sent", id)>>
  ELSE <<ErrorMsg("api-error", id)>>

\* The variant without the finally: a rejected fetch or a body that is not
\* JSON leaves the in-flight flag set.
RelayCompletes_NoFinally(id, class) ==
  /\ id \in pending
  /\ pending' = pending \ {id}
  /\ sendMessageToClients(TerminalMessages(id, class))
  /\ isSendingLocationData' =
       (isSendingLocationData /\ (FetchThrows(class) \/ JsonThrows(class)))
  /\ callLog' = [callLog EXCEPT ![id].terminal = @ \o TerminalTypes(emitted')]
  /\ UNCHANGED <<config, isCurrentlyTracking, lastAttemptedSendTimestamp, now, fate,
                 prevCallAt, sessionCalls, stoppedCalls>>

\* The variant that retries a failed call at once.
RelayCompletes_Retry(id, class) ==
  /\ id \in pending
  /\ sendMessageToClients(TerminalMessages(id, class))
  /\ IF class = "success"
     THEN /\ pending' = pending \ {id}
          /\ isSendingLocationData' = FALSE
          /\ callLog' = [callLog EXCEPT ![id].terminal = @ \o TerminalTypes(emitted')]
     ELSE /\ pending' = (pending \ {id}) \cup {Len(callLog) + 1}
          /\ isSendingLocationData' = TRUE
          /\ callLog' = Append([callLog EXCEPT ![id].terminal = @ \o TerminalTypes(emitted')],
                               [data |-> callLog[id].data, terminal |-> <<>>])
  /\ UNCHANGED <<config, isCurrentlyTracking, lastAttemptedSendTimestamp, now, fate,
                 prevCallAt, sessionCalls, stoppedCalls>>

\* The variant that discards the result of a call that a stop-tracking
\* found outstanding.
RelayCompletes_DropStale(id, class) ==
  /\ id \in pending
  /\ pending' = pending \ {id}
  /\ sendMessageToClients(IF id \in stoppedCalls THEN <<>> ELSE TerminalMessages(id, class))
  /\ isSendingLocationData' = FALSE
  /\ callLog' = [callLog EXCEPT ![id].terminal = @ \o TerminalTypes(emitted')]
  /\ UNCHANGED <<config, isCurrentlyTracking, lastAttemptedSendTimestamp, now, fate,
                 prevCallAt, sessionCalls, stoppedCalls>>

\* The variant that gives up forwarding when the relay reports a failure.
RelayCompletes_AutoStop(id, class) ==
  /\ id \in pending
  /\ pending' = pending \ {id}
  /\ sendMessageToClients(TerminalMessages(id, class))
  /\ isSendingLocationData' = FALSE
  /\ callLog' = [callLog EXCEPT ![id].terminal = @ \o TerminalTypes(emitted')]
  /\ isCurrentlyTracking' = (isCurrentlyTracking /\ class = "success")
  /\ UNCHANGED <<config, lastAttemptedSendTimestamp, now, fate,
                 prevCallAt, sessionCalls, stoppedCalls>>

RelayCompletes(id, class) ==
  /\ id \in pending
  /\ pending' = pending \ {id}
  /\ sendMessageToClients(TerminalMessages(id, class))
  /\ isSendingLocationData' = FALSE
  /\ callLog' = [callLog EXCEPT ![id].terminal = @ \o TerminalTypes(emitted')]
  /\ UNCHANGED <<config, isCurrentlyTracking, lastAttemptedSendTimestamp, now, fate,
                 prevCallAt, sessionCalls, stoppedCalls>>

\* Date.now() advances.
Tick ==
  /\ now < Epoch + MaxTicks * MsPerSecond
  /\ now' = now + MsPerSecond
  /\ UNCHANGED <<agentVars, pending, pageVars, script, inbox, obsVars>>

(***************************************************************************)
(* The page (part_005, the component that starts at line 435). A handler   *)
(* is an operator from the tab's state pg and the command queue q to the   *)
(* two after it; React applies the handler's setState calls in order.      *)
(***************************************************************************)
PERMISSION_DENIED == "PERMISSION_DENIED"
POSITION_UNAVAILABLE == "POSITION_UNAVAILABLE"
TIMEOUT == "TIMEOUT"
GeoErrorCodes == {PERMISSION_DENIED, POSITION_UNAVAILABLE, TIMEOUT}

\* The variant of sendCommandToSW that queues a command for a service
\* worker that is not active.
sendCommandToSW_Buffers(pg, q, cmd) ==
  IF pg.registered /\ swActive
  THEN [page |-> pg, queue |-> Append(q, cmd)]
  ELSE [page |-> [pg EXCEPT !.errorMessage = "sw-inactive",
                            !.toast = Toast("service-inactive"),
                            !.isServiceWorkerActive = FALSE],
        queue |-> Append(q, cmd)]

\* sendCommandToSW (part_005:478-487)
sendCommandToSW(pg, q, cmd) ==
  IF pg.registered /\ swActive
  THEN [page |-> pg, queue |-> Append(q, cmd)]
  ELSE [page |-> [pg EXCEPT !.errorMessage = "sw-inactive",
                            !.toast = Toast("service-inactive"),
                            !.isServiceWorkerActive = FALSE],
        queue |-> q]

\* message.toLowerCase().includes("falha") || ...includes("erro"), for the
\* texts of the Agent's tracking_status messages: "Encaminhamento de dados
\* interrompido" holds "erro".
MentionsFailure(text) == text = "stopped"

\* navigator.serviceWorker.onmessage (part_005:504-537)
onmessage(pg, m) ==
  IF ~pg.mounted THEN pg
  ELSE CASE m.type = "status" -> [pg EXCEPT !.statusMessage = m.text]
         [] m.type = "error" ->
              [pg EXCEPT !.errorMessage = m.text,
                         !.statusMessage = "service-error",
                         !.toast = [title |-> "service-error", call |-> m.call]]
         [] m.type = "success" ->
              [pg EXCEPT !.statusMessage = m.text,
                         !.errorMessage = "null",
                         !.toast = [title |-> "forwarded", call |-> m.call]]
         [] m.type = "tracking_status" ->
              [pg EXCEPT !.isSwForwarding = m.isTracking,
                         !.statusMessage = m.text,
                         !.errorMessage = IF MentionsFailure(m.text) THEN m.text ELSE "null"]
         [] OTHER -> pg

\* handlePositionUpdate (part_005:608-633) as the watch w calls it: the
\* isPageTracking, deviceId, serverUrl and statusMessage it reads are those
\* of the render the watch was created in.
handlePositionUpdate(pg, q, w) ==
  IF ~pg.mounted \/ ~w.isPageTracking
  THEN [page |-> pg, queue |-> q]
  ELSE LET r == sendCommandToSW(pg, q,
                  Command("location-update", Payload(0, w.serverUrl, w.deviceId)))
       IN [page |-> IF w.statusMessage # "attempting"
                    THEN [r.page EXCEPT !.statusMessage = "fix"]
                    ELSE r.page,
           queue |-> r.queue]

\* handlePositionError as it would be if every sensor error were fatal.
handlePositionError_AllFatal(pg, q, w, code) ==
  LET r == sendCommandToSW([pg EXCEPT !.errorMessage = code, !.toast = Toast("gps-error"),
                                      !.watch = NoWatch, !.isPageTracking = FALSE],
                           q, Command("stop-tracking", NoData))
  IN [page |-> [r.page EXCEPT !.statusMessage = "stopped-denied"], queue |-> r.queue]

\* handlePositionError (part_005:636-664) as the watch w calls it
handlePositionError(pg, q, w, code) ==
  IF ~pg.mounted THEN [page |-> pg, queue |-> q]
  ELSE LET pg1 == [pg EXCEPT !.errorMessage = code, !.toast = Toast("gps-error")]
       IN IF code = PERMISSION_DENIED /\ w.isPageTracking
          THEN LET r == sendCommandToSW([pg1 EXCEPT !.watch = NoWatch, !.isPageTracking = FALSE],
                                        q, Command("stop-tracking", NoData))
               IN [page |-> [r.page EXCEPT !.statusMessage = "stopped-denied"],
                   queue |-> r.queue]
          ELSE [page |-> pg1, queue |-> q]

\* requestLocationPermissionAndStartWatcher, up to the call of watchPosition
\* (part_005:667-684): the watch is created with what this render sees.
requestLocationPermissionAndStartWatcher(pg) ==
  IF ~pg.hasGeolocation
  THEN [pg EXCEPT !.errorMessage = "no-geolocation", !.toast = Toast("gps-unsupported")]
  ELSE [pg EXCEPT !.isUiDisabled = TRUE,
                  !.statusMessage = "requesting",
                  !.watch = [active |-> TRUE, isPageTracking |-> pg.isPageTracking,
                             deviceId |-> pg.deviceId, serverUrl |-> pg.serverUrl,
                             intervalSeconds |-> pg.intervalSeconds,
                             statusMessage |-> pg.statusMessage]]

\* the value that setIntervalSeconds(NaN) stores (part_005:773, 787): a
\* number of its own, which no parseInt of the interval field returns
NaN == 0 - 1000
isNaN(x) == x = NaN

\* the interval test of handleStartTracking (part_005:730); the state holds
\* only NaN or what parseInt returned, so Number.isInteger adds nothing
InvalidInterval(i) == isNaN(i) \/ (~isNaN(i) /\ i < 1)

isConfigurationInvalid(pg) ==
  pg.deviceId = "" \/ pg.serverUrl = "" \/ ~isValidHttpUrl(pg.serverUrl)
    \/ InvalidInterval(pg.intervalSeconds)

\* The checks of handleStartTracking, in their order, without the test of
\* the server URL.
StartChecks_NoUrlCheck(pg) ==
  <<[name |-> "device-id", fails |-> pg.deviceId = ""],
    [name |-> "server-url", fails |-> FALSE],
    [name |-> "interval", fails |-> InvalidInterval(pg.intervalSeconds)],
    [name |-> "service-not-active", fails |-> ~pg.isServiceWorkerActive]>>

\* The four checks of handleStartTracking, in their order (part_005:724-735)
StartChecks(pg) ==
  <<[name |-> "device-id", fails |-> pg.deviceId = ""],
    [name |-> "server-url", fails |-> pg.serverUrl = "" \/ ~isValidHttpUrl(pg.serverUrl)],
    [name |-> "interval", fails |-> InvalidInterval(pg.intervalSeconds)],
    [name |-> "service-not-active", fails |-> ~pg.isServiceWorkerActive]>>

\* the checks that fail: each calls setErrorMessage and toast, so the error
\* message is that of the last and there is one toast for each
FailedChecks(c) == IF c.fails THEN <<c.name>> ELSE <<>>
StartErrors(pg) ==
  LET cs == StartChecks(pg)
  IN FailedChecks(cs[1]) \o FailedChecks(cs[2]) \o FailedChecks(cs[3]) \o FailedChecks(cs[4])

\* the toasts on screen after a handler has raised those of ts: the reducer
\* keeps the newest TOAST_LIMIT (part_000:11, 84)
TOAST_LIMIT == 3
VisibleToasts(ts) ==
  IF Len(ts) <= TOAST_LIMIT THEN ts ELSE SubSeq(ts, Len(ts) - TOAST_LIMIT + 1, Len(ts))

\* the body of handleStartTracking (part_005:722-751)
StartRequest(pg) ==
  LET errs == StartErrors(pg)
  IN IF errs # <<>>
     THEN [pg EXCEPT !.errorMessage = errs[Len(errs)], !.toast = Toast(errs[Len(errs)]),
                     !.isUiDisabled = FALSE]
     ELSE requestLocationPermissionAndStartWatcher([pg EXCEPT !.errorMessage = "null"])

criticalGpsErrorOnPage(pg) == pg.errorMessage \in {"no-geolocation", PERMISSION_DENIED}

startButtonShouldBeDisabled(pg) ==
  \/ ~pg.isServiceWorkerActive
  \/ pg.isUiDisabled
  \/ (~pg.isPageTracking /\ (isConfigurationInvalid(pg) \/ criticalGpsErrorOnPage(pg)))

(***************************************************************************)
(* The configuration in localStorage (part_005:568-605).                   *)
(***************************************************************************)
\* The variant of parseInt that reads one digit only.
parseInt_OneDigit(text) ==
  LET IsDigit(c) == \E d \in 1..10 : Digits[d] = c
      DigitValue(c) == (CHOOSE d \in 1..10 : Digits[d] = c) - 1
  IN IF text # <<>> /\ IsDigit(Head(text)) THEN DigitValue(Head(text)) ELSE NaN

\* parseInt(text, 10): leading blanks are skipped, a sign is read, then the
\* digits up to the first character that is none; NaN without a digit
parseInt(text) ==
  LET IsDigit(c) == \E d \in 1..10 : Digits[d] = c
      DigitValue(c) == (CHOOSE d \in 1..10 : Digits[d] = c) - 1
      RECURSIVE SkipBlanks(_)
      SkipBlanks(t) == IF t # <<>> /\ Head(t) = " " THEN SkipBlanks(Tail(t)) ELSE t
      RECURSIVE Value(_, _, _)
      Value(t, acc, seen) ==
        IF t # <<>> /\ IsDigit(Head(t))
        THEN Value(Tail(t), 10 * acc + DigitValue(Head(t)), TRUE)
        ELSE IF seen THEN acc ELSE NaN
      t0 == SkipBlanks(text)
      negative == t0 # <<>> /\ Head(t0) = "-"
      t1 == IF t0 # <<>> /\ Head(t0) \in {"-", "+"} THEN Tail(t0) ELSE t0
      v == Value(t1, 0, FALSE)
  IN IF isNaN(v) THEN NaN ELSE IF negative THEN 0 - v ELSE v

\* The variant of the save effects that stores the server URL untested.
saveEffects_AnyUrl(st, pg, changed) ==
  [st EXCEPT
     !.traccarDeviceId =
        IF "deviceId" \in changed
        THEN (IF pg.deviceId # "" THEN {pg.deviceId} ELSE {})
        ELSE @,
     !.traccarServerUrl = IF "serverUrl" \in changed THEN {pg.serverUrl} ELSE @,
     !.traccarIntervalSeconds =
        IF "intervalSeconds" \in changed /\ ~InvalidInterval(pg.intervalSeconds)
        THEN {toString(pg.intervalSeconds)}
        ELSE @]

\* The save effects whose dependency is in `changed`, run on the state pg
\* (part_005:603-605). The device ids of the model hold no blank, so
\* trim() gives the string itself.
saveEffects(st, pg, changed) ==
  [st EXCEPT
     !.traccarDeviceId =
        IF "deviceId" \in changed
        THEN (IF pg.deviceId # "" THEN {pg.deviceId} ELSE {})
        ELSE @,
     !.traccarServerUrl =
        IF "serverUrl" \in changed /\ pg.serverUrl # "" /\ isValidHttpUrl(pg.serverUrl)
        THEN {pg.serverUrl}
        ELSE @,
     !.traccarIntervalSeconds =
        IF "intervalSeconds" \in changed /\ ~InvalidInterval(pg.intervalSeconds)
        THEN {toString(pg.intervalSeconds)}
        ELSE @]

\* The load effect (part_005:569-600) on an available storage st: the state
\* it sets and the items it writes.
loadEffect(st, pg) ==
  LET savedDeviceId == st.traccarDeviceId
      savedServerUrl == st.traccarServerUrl
      savedInterval == st.traccarIntervalSeconds
      deviceId == IF savedDeviceId # {} /\ savedDeviceId # {""}
                  THEN CHOOSE d \in savedDeviceId : TRUE
                  ELSE pg.deviceId
      urlKept == savedServerUrl # {} /\ savedServerUrl # {""}
                   /\ isValidHttpUrl(CHOOSE u \in savedServerUrl : TRUE)
      urlToSet == IF urlKept THEN CHOOSE u \in savedServerUrl : TRUE ELSE DEFAULT_SERVER_URL
      urlItem == IF savedServerUrl = {""} \/ urlKept THEN savedServerUrl ELSE {DEFAULT_SERVER_URL}
      hasInterval == savedInterval # {} /\ savedInterval # {<<>>}
      parsedInterval == IF hasInterval THEN parseInt(CHOOSE t \in savedInterval : TRUE) ELSE NaN
      intervalKept == hasInterval /\ ~InvalidInterval(parsedInterval)
      interval == IF ~hasInterval THEN pg.intervalSeconds
                  ELSE IF intervalKept THEN parsedInterval ELSE 10
      intervalItem == IF hasInterval /\ ~intervalKept THEN {toString(10)} ELSE savedInterval
  IN [ page |-> [pg EXCEPT !.deviceId = deviceId, !.serverUrl = urlToSet,
                           !.intervalSeconds = interval],
       storage |-> [st EXCEPT !.traccarServerUrl = urlItem,
                              !.traccarIntervalSeconds = intervalItem] ]

\* An error thrown out of an effect and caught by nothing: React unmounts
\* the tree.
UnmountedByError(pg) == [pg EXCEPT !.mounted = FALSE, !.errorMessage = "uncaught-exception"]

\* The commit of tab p's state pg after an event handler: the save effects
\* of the fields in `changed` run (part_005:603-605). None of them has a
\* try around it: the one that reaches localStorage throws out of the
\* effect when the storage does.
Commit(p, pg, changed) ==
  IF /\ ~localStorage.available
     /\ \/ "deviceId" \in changed
        \/ "serverUrl" \in changed /\ pg.serverUrl # "" /\ isValidHttpUrl(pg.serverUrl)
        \/ "intervalSeconds" \in changed /\ ~InvalidInterval(pg.intervalSeconds)
  THEN /\ page' = [page EXCEPT ![p] = UnmountedByError(pg)]
       /\ UNCHANGED localStorage
  ELSE /\ page' = [page EXCEPT ![p] = pg]
       /\ localStorage' = IF localStorage.available
                          THEN saveEffects(localStorage, pg, changed)
                          ELSE localStorage

(***************************************************************************)
(* The steps of a tab p: the registration promise resolves, the user       *)
(* clicks, the sensor calls the watch back, a message of the Agent arrives.*)
(***************************************************************************)
\* the .then of navigator.serviceWorker.register (part_005:494-538)
RegistrationResolves(p) ==
  LET pg == page[p]
      r == sendCommandToSW([pg EXCEPT !.registered = TRUE,
                                      !.isServiceWorkerActive = TRUE,
                                      !.statusMessage = "registered",
                                      !.toast = Toast("service-registered")],
                           toAgent, Command("get-status", NoData))
  IN /\ p \in clients /\ pg.mounted /\ ~pg.registered
     /\ Len(toAgent) < MaxQueue
     /\ page' = [page EXCEPT ![p] = [r.page EXCEPT !.listening = TRUE]]
     /\ toAgent' = r.queue
     /\ UNCHANGED <<agentVars, envVars, clients, swActive, localStorage, script, inbox, obsVars>>

\* setDeviceId, the onChange of the device id field (part_005:897), and the
\* save effect of the device id (part_005:603)
setDeviceId(p, d) ==
  LET pg == page[p]
  IN /\ p \in clients /\ pg.mounted
     /\ ~(pg.isPageTracking \/ pg.isUiDisabled)
     /\ d # pg.deviceId
     /\ Commit(p, [pg EXCEPT !.deviceId = d], {"deviceId"})
     /\ UNCHANGED <<agentVars, envVars, clients, swActive, toAgent, script, inbox, obsVars>>

AllFields == {"deviceId", "serverUrl", "intervalSeconds"}

\* The three fields of the state that changed between two renders: the
\* dependencies of the save effects (Object.is, so NaN equals NaN).
ChangedFields(old, new) == {k \in AllFields : old[k] # new[k]}

\* The component mounts in tab p (part_005:569-605): the load effect runs,
\* then the three save effects with the initial state, then, after the
\* render of what was loaded, the save effects of the fields that changed.
\* When the storage throws, the catch of the load effect (part_005:594-599)
\* reports it and the save effect of the device id then throws uncaught.
PageMounts(p, geo) ==
  LET fresh == FreshPage("", geo)
      reported == [fresh EXCEPT !.errorMessage = "storage-load-error",
                                !.toast = Toast("storage-error")]
      l == loadEffect(localStorage, fresh)
      s1 == saveEffects(l.storage, fresh, AllFields)
      s2 == saveEffects(s1, l.page, ChangedFields(fresh, l.page))
  IN /\ p \notin clients
     /\ clients' = clients \cup {p}
     /\ inbox' = [inbox EXCEPT ![p] = <<>>]
     /\ IF localStorage.available
        THEN /\ page' = [page EXCEPT ![p] = l.page]
             /\ localStorage' = s2
        ELSE /\ page' = [page EXCEPT ![p] = UnmountedByError(reported)]
             /\ UNCHANGED localStorage
     /\ UNCHANGED <<agentVars, envVars, swActive, toAgent, script, obsVars>>

\* handleServerUrlChange (part_005:796-811) and the save effect of the URL
handleServerUrlChange(p, newUrl) ==
  LET pg == page[p]
      pg1 == [pg EXCEPT !.serverUrl = newUrl,
                        !.errorMessage = IF newUrl = "" THEN "server-url-empty"
                                         ELSE IF ~isValidHttpUrl(newUrl) THEN "server-url-invalid"
                                         ELSE "null"]
      s == sendCommandToSW(pg1, toAgent, Command("update-config", [serverUrl |-> newUrl]))
      r == IF newUrl # "" /\ isValidHttpUrl(newUrl) /\ pg.isSwForwarding
           THEN [page |-> [s.page EXCEPT !.toast = Toast("url-updated")], queue |-> s.queue]
           ELSE [page |-> pg1, queue |-> toAgent]
  IN /\ p \in clients /\ pg.mounted
     /\ ~(pg.isPageTracking \/ pg.isUiDisabled)
     /\ newUrl # pg.serverUrl
     /\ Len(toAgent) < MaxQueue
     /\ Commit(p, r.page, {"serverUrl"})
     /\ toAgent' = r.queue
     /\ UNCHANGED <<agentVars, envVars, clients, swActive, script, inbox, obsVars>>

\* handleIntervalChange (part_005:770-793) and the save effect of the
\* interval
handleIntervalChange(p, valueString) ==
  LET pg == page[p]
      value == parseInt(valueString)
      accepted == valueString # <<>> /\ ~InvalidInterval(value)
      pg1 == IF valueString = <<>>
             THEN [pg EXCEPT !.intervalSeconds = NaN, !.errorMessage = "interval-empty"]
             ELSE IF accepted
             THEN [pg EXCEPT !.intervalSeconds = value, !.errorMessage = "null"]
             ELSE [pg EXCEPT !.intervalSeconds = NaN, !.errorMessage = "interval-invalid",
                             !.toast = Toast("interval-invalid")]
      s == sendCommandToSW(pg1, toAgent, Command("update-config", [intervalSeconds |-> value]))
      r == IF accepted /\ pg.isSwForwarding
           THEN [page |-> [s.page EXCEPT !.toast = Toast("interval-updated")], queue |-> s.queue]
           ELSE [page |-> pg1, queue |-> toAgent]
  IN /\ p \in clients /\ pg.mounted
     /\ ~pg.isUiDisabled
     /\ Len(toAgent) < MaxQueue
     /\ Commit(p, r.page, ChangedFields(pg, r.page))
     /\ toAgent' = r.queue
     /\ UNCHANGED <<agentVars, envVars, clients, swActive, script, inbox, obsVars>>

\* the browser begins to refuse the page its storage
StorageBreaks ==
  /\ localStorage.available
  /\ localStorage' = [localStorage EXCEPT !.available = FALSE]
  /\ UNCHANGED <<agentVars, envVars, clients, swActive, toAgent, page, script, inbox, obsVars>>

StoredDeviceIds == {{}, {"dev1"}}
StoredServerUrls == {{}, {""}, {FtpUrl}, {HttpUrl}}
StoredIntervals == {{}, {<<"2">>}, {<<"1", ".", "5">>}, {<<"a", "b", "c">>}, {<<"0">>}}
TypedDeviceIds == {"", "dev2"}
TypedServerUrls == {"", FtpUrl, HttpUrl, DEFAULT_SERVER_URL}
TypedIntervals == {<<>>, <<"3">>, <<"0">>, <<"1", ".", "5">>}

\* handleStartTracking (part_005:722-751), the onClick of the button while
\* it reads "start"
handleStartTracking(p) ==
  LET pg == page[p]
  IN /\ p \in clients /\ pg.mounted
     /\ ~pg.isPageTracking /\ ~startButtonShouldBeDisabled(pg)
     /\ page' = [page EXCEPT ![p] = StartRequest(pg)]
     /\ UNCHANGED <<agentVars, envVars, clients, swActive, localStorage, toAgent, script, inbox, obsVars>>

\* The variant of handleStopTracking that leaves the watch of the sensor on.
handleStopTracking_KeepsWatch(p) ==
  LET pg == page[p]
      r == sendCommandToSW([pg EXCEPT !.isPageTracking = FALSE],
                           toAgent, Command("stop-tracking", NoData))
  IN /\ p \in clients /\ pg.mounted
     /\ pg.isPageTracking /\ ~startButtonShouldBeDisabled(pg)
     /\ Len(toAgent) < MaxQueue
     /\ page' = [page EXCEPT ![p] = [r.page EXCEPT !.toast = Toast("tracking-stopped"),
                                                   !.statusMessage = "stopped-by-user",
                                                   !.isUiDisabled = FALSE]]
     /\ toAgent' = r.queue
     /\ UNCHANGED <<agentVars, envVars, clients, swActive, localStorage, script, inbox, obsVars>>

\* handleStopTracking (part_005:754-767), the onClick of the button while
\* it reads "stop"
handleStopTracking(p) ==
  LET pg == page[p]
      r == sendCommandToSW([pg EXCEPT !.watch = NoWatch, !.isPageTracking = FALSE],
                           toAgent, Command("stop-tracking", NoData))
  IN /\ p \in clients /\ pg.mounted
     /\ pg.isPageTracking /\ ~startButtonShouldBeDisabled(pg)
     /\ Len(toAgent) < MaxQueue
     /\ page' = [page EXCEPT ![p] = [r.page EXCEPT !.toast = Toast("tracking-stopped"),
                                                   !.statusMessage = "stopped-by-user",
                                                   !.isUiDisabled = FALSE]]
     /\ toAgent' = r.queue
     /\ UNCHANGED <<agentVars, envVars, clients, swActive, localStorage, script, inbox, obsVars>>

\* the success callback given to watchPosition (part_005:686-701)
WatchSuccess(p) ==
  LET pg == page[p]
      w == pg.watch
      r1 == IF ~w.isPageTracking
            THEN sendCommandToSW(
                   [pg EXCEPT !.isPageTracking = TRUE, !.errorMessage = "null",
                              !.statusMessage = "gps-active", !.toast = Toast("gps-active")],
                   toAgent,
                   Command("start-tracking",
                           [config |-> Cfg(w.deviceId, w.serverUrl, w.intervalSeconds)]))
            ELSE [page |-> pg, queue |-> toAgent]
      r2 == handlePositionUpdate(r1.page, r1.queue, w)
  IN /\ p \in clients /\ pg.mounted /\ w.active
     /\ Len(toAgent) + 2 <= MaxQueue
     /\ page' = [page EXCEPT ![p] = [r2.page EXCEPT !.isUiDisabled = FALSE]]
     /\ toAgent' = r2.queue
     /\ UNCHANGED <<agentVars, envVars, clients, swActive, localStorage, script, inbox, obsVars>>

\* the error callback given to watchPosition (part_005:702-707)
WatchError(p, code) ==
  LET pg == page[p]
      r == handlePositionError(pg, toAgent, pg.watch, code)
  IN /\ p \in clients /\ pg.mounted /\ pg.watch.active
     /\ Len(toAgent) < MaxQueue
     /\ page' = [page EXCEPT ![p] = [r.page EXCEPT !.isUiDisabled = FALSE]]
     /\ toAgent' = r.queue
     /\ UNCHANGED <<agentVars, envVars, clients, swActive, localStorage, script, inbox, obsVars>>

\* the tab takes the next message of the Agent from its queue
OnMessage(p) ==
  /\ p \in clients /\ inbox[p] # <<>>
  /\ page' = [page EXCEPT ![p] = IF page[p].listening
                                 THEN onmessage(page[p], Head(inbox[p]))
                                 ELSE page[p]]
  /\ inbox' = [inbox EXCEPT ![p] = Tail(inbox[p])]
  /\ UNCHANGED <<agentVars, envVars, clients, swActive, localStorage, toAgent, script, obsVars>>

\* the service worker takes the next command from its queue and runs the
\* message listener on it (part_007:79-109)
AgentReceive ==
  /\ toAgent # <<>>
  /\ LET cmd == Head(toAgent)
     IN CASE cmd.command = "start-tracking" -> StartTracking(cmd.data.config)
          [] cmd.command = "stop-tracking" -> StopTracking
          [] cmd.command = "location-update" ->
               /\ Len(fate) < MaxSamples
               /\ LocationUpdate([cmd.data EXCEPT !.fix = Len(fate) + 1])
          [] cmd.command = "get-status" -> GetStatus
          [] cmd.command = "update-config" -> UpdateConfig(cmd.data)
          [] OTHER -> FALSE
  /\ toAgent' = Tail(toAgent)
  /\ UNCHANGED <<clients, swActive, localStorage, page, script>>

\* the installed service worker becomes registration.active
\* (part_007:111-117)
SwActivates ==
  /\ ~swActive
  /\ swActive' = TRUE
  /\ UNCHANGED <<agentVars, envVars, clients, localStorage, toAgent, page, script, inbox, obsVars>>

(***************************************************************************)
(* The Agent under every sequence of commands: any client may post any     *)
(* command at any time.                                                    *)
(***************************************************************************)
EnvStart == \E cfg \in StartConfigs : StartTracking(cfg) /\ UNCHANGED <<pageVars, script>>
EnvStop == StopTracking /\ UNCHANGED <<pageVars, script>>
EnvLocationUpdate ==
  /\ Len(fate) < MaxSamples
  /\ LocationUpdate(Payload(Len(fate) + 1, HttpUrl, "dev1"))
  /\ UNCHANGED <<pageVars, script>>
EnvGetStatus == GetStatus /\ UNCHANGED <<pageVars, script>>
EnvUpdateConfig == \E p \in ConfigUpdates : UpdateConfig(p) /\ UNCHANGED <<pageVars, script>>
EnvRelayCompletes ==
  \E id \in pending, class \in RelayClasses :
    RelayCompletes(id, class) /\ UNCHANGED <<pageVars, script>>

Next ==
  \/ EnvStart
  \/ EnvStop
  \/ EnvLocationUpdate
  \/ EnvGetStatus
  \/ EnvUpdateConfig
  \/ EnvRelayCompletes
  \/ Tick

Spec == Init /\ [][Next]_vars

\* Every fetch settles: the relay answers or the request fails.
LiveSpec == Spec /\ WF_vars(EnvRelayCompletes)

(***************************************************************************)
(* Properties of the Agent.                                                *)
(***************************************************************************)

\* C1: at every instant at most one relay call of the Agent is outstanding,
\* whatever the interleaving of samples and commands, a stop-tracking and
\* start-tracking issued while a call is outstanding included.
C1_AtMostOneOutstanding == Cardinality(pending) <= 1

\* C2: while forwarding stays enabled, a relay call that is not the first
\* since the start-tracking begins at least config.intervalSeconds * 1000 ms
\* after the call before it, with the interval the Agent stores at that
\* moment.
C2_ThrottleInvariant ==
  [][ (Len(callLog') = Len(callLog) + 1 /\ prevCallAt # NoTime)
        => now - prevCallAt >= config.intervalSeconds * MsPerSecond ]_vars

\* two calls of one session, under an interval that is not zero
C2_Witness ==
  /\ sessionCalls >= 2
  /\ config.intervalSeconds >= 1
  /\ now - lastAttemptedSendTimestamp = 0

\* C3: a location-update handled while a delivery is in flight begins no
\* relay call and sends no message to any page; the sample is not kept.
C3_InFlightSampleDropped ==
  [][ (isSendingLocationData /\ Len(fate') = Len(fate) + 1)
        => /\ pending' = pending
           /\ callLog' = callLog
           /\ emitted' = <<>>
           /\ inbox' = inbox
           /\ ~(\E i \in 1..Len(callLog) : callLog[i].data.fix = Len(fate')) ]_vars

\* a sample that passed the throttle was refused by the in-flight guard,
\* and the call that was in flight has completed since
C3_Witness ==
  /\ \E s \in 1..Len(fate) : fate[s] = "inflight"
  /\ pending = {}
  /\ Len(callLog) = 1

\* C4: a sample that passes the checks of the Agent gets exactly one
\* terminal message, success or error, once its relay call has settled, and
\* every relay call settles; a sample that is dropped gets none.
C4_ExactlyOneTerminal ==
  /\ [](\A i \in 1..Len(callLog) :
          /\ i \in pending => callLog[i].terminal = <<>>
          /\ i \notin pending =>
               callLog[i].terminal \in {<<"success">>, <<"error">>})
  /\ [](\A s \in 1..Len(fate) : fate[s] = "sent" <=> (\E i \in 1..Len(callLog) : callLog[i].data.fix = s))
  /\ [][ emitted' # emitted =>
           \A m \in 1..Len(emitted') :
             IsTerminal(emitted'[m]) => emitted'[m].call \in pending \ pending' ]_vars
  /\ \A i \in 1..MaxSamples : []<>(i \notin pending)

\* one sample was sent and has its terminal message, another was dropped
C4_Witness ==
  /\ \E i \in 1..Len(callLog) : i \notin pending /\ Len(callLog[i].terminal) = 1
  /\ \E s \in 1..Len(fate) : fate[s] \in {"throttled", "inflight", "ignored"}

\* C7: a start-tracking whose configuration is not valid (empty deviceId,
\* a serverUrl that is not http/https, intervalSeconds below 1) never makes
\* the Agent send tracking_status with isTracking true.
C7_ConfigGate ==
  [][ \A cfg \in StartConfigs :
        (StartTracking(cfg) /\ ~ValidConfig(cfg))
          => \A m \in 1..Len(emitted') :
               ~(emitted'[m].type = "tracking_status" /\ emitted'[m].isTracking) ]_vars

ScenarioConfig == Cfg("dev1", HttpUrl, 5)
SampleTimes == <<0, 1 * MsPerSecond, 6 * MsPerSecond>>
ScenarioEnd == Len(SampleTimes) + 1

InitScenario ==
  /\ config \in {InitialConfig, Cfg("dev0", HttpUrl, 2)}
  /\ isCurrentlyTracking \in BOOLEAN
  /\ lastAttemptedSendTimestamp \in {0, Epoch - MsPerSecond, Epoch}
  /\ isSendingLocationData = FALSE
  /\ now = Epoch
  /\ pending = {}
  /\ clients = {"tabA"}
  /\ swActive = TRUE
  /\ toAgent = <<>>
  /\ inbox = [p \in Tabs |-> <<>>]
  /\ page = [p \in Tabs |-> IF p = "tabA" THEN RegisteredPage("dev1") ELSE ClosedPage]
  /\ script = 0
  /\ emitted = <<>>
  /\ fate = <<>>
  /\ callLog = <<>>
  /\ prevCallAt = NoTime
  /\ sessionCalls = 0
  /\ stoppedCalls = {}
  /\ localStorage = saveEffects(DefaultStorage, page["tabA"], {"deviceId", "serverUrl", "intervalSeconds"})

ScenarioStart ==
  /\ script = 0
  /\ StartTracking(ScenarioConfig)
  /\ script' = 1
  /\ UNCHANGED pageVars

ScenarioSample ==
  /\ script \in 1..Len(SampleTimes)
  /\ now = Epoch + SampleTimes[script]
  /\ LocationUpdate(Payload(script, HttpUrl, "dev1"))
  /\ script' = script + 1
  /\ UNCHANGED pageVars

\* the clock runs up to the next sample and, after the last one, for as
\* long as a relay call may still be outstanding
ScenarioTick ==
  /\ script \in 1..ScenarioEnd
  /\ now < Epoch + (IF script <= Len(SampleTimes)
                    THEN SampleTimes[script]
                    ELSE SampleTimes[Len(SampleTimes)] + 2 * MsPerSecond)
  /\ now' = now + MsPerSecond
  /\ UNCHANGED <<agentVars, pending, pageVars, script, inbox, obsVars>>

ScenarioRelay ==
  \E id \in pending : RelayCompletes(id, "success") /\ UNCHANGED <<pageVars, script>>

ScenarioPageReceives == \E p \in clients : OnMessage(p)

NextScenario ==
  \/ ScenarioStart
  \/ ScenarioSample
  \/ ScenarioTick
  \/ ScenarioRelay
  \/ ScenarioPageReceives

SpecScenario == InitScenario /\ [][NextScenario]_vars

ScenarioDone == script = ScenarioEnd /\ pending = {} /\ \A p \in clients : inbox[p] = <<>>

\* C8 as the specification states it: the scenario ends with exactly 2
\* delivery attempts, for the samples at 0 and 6000 ms, the sample at
\* 1000 ms dropped by the throttle, and 2 success messages.
C8_Scenario ==
  ScenarioDone =>
    /\ fate = <<"sent", "throttled", "sent">>
    /\ Len(callLog) = 2
    /\ Cardinality({i \in 1..Len(callLog) : callLog[i].terminal = <<"success">>}) = 2

\* C8, amended: the sample at 1000 ms is always dropped by the throttle and
\* the sample at 0 ms always sent; the sample at 6000 ms is sent exactly
\* when the delivery of the first has completed by then, and is dropped by
\* the in-flight guard otherwise; every attempt gets its success message.
C8_ScenarioAmended ==
  /\ [](ScenarioDone =>
          /\ fate[1] = "sent"
          /\ fate[2] = "throttled"
          /\ fate[3] \in {"sent", "inflight"}
          /\ Len(callLog) = (IF fate[3] = "sent" THEN 2 ELSE 1)
          /\ \A i \in 1..Len(callLog) : callLog[i].data.fix \in {1, 3}
          /\ Cardinality({i \in 1..Len(callLog) : callLog[i].terminal = <<"success">>}) = Len(callLog))
  /\ [][ (script = Len(SampleTimes) /\ script' = ScenarioEnd)
           => (fate'[Len(SampleTimes)] = "sent" <=> pending = {}) ]_vars

\* the scenario has ended with two attempts and two success messages
C8_Witness ==
  /\ ScenarioDone
  /\ Len(callLog) = 2
  /\ Cardinality({i \in 1..Len(callLog) : callLog[i].terminal = <<"success">>}) = 2

(***************************************************************************)
(* The Agent under every sequence of start-tracking, stop-tracking and     *)
(* location-update commands, with one tab that listens to its messages.    *)
(***************************************************************************)
InitUi ==
  /\ config = InitialConfig
  /\ isCurrentlyTracking = FALSE
  /\ lastAttemptedSendTimestamp = 0
  /\ isSendingLocationData = FALSE
  /\ now = Epoch
  /\ pending = {}
  /\ clients = {"tabA"}
  /\ swActive = TRUE
  /\ toAgent = <<>>
  /\ inbox = [p \in Tabs |-> <<>>]
  /\ page = [p \in Tabs |-> IF p = "tabA" THEN RegisteredPage("dev1") ELSE ClosedPage]
  /\ script = 0
  /\ emitted = <<>>
  /\ fate = <<>>
  /\ callLog = <<>>
  /\ prevCallAt = NoTime
  /\ sessionCalls = 0
  /\ stoppedCalls = {}
  /\ localStorage = saveEffects(DefaultStorage, page["tabA"], {"deviceId", "serverUrl", "intervalSeconds"})

PageReceives == \E p \in clients : OnMessage(p)

NextUi ==
  \/ EnvStart
  \/ EnvStop
  \/ EnvLocationUpdate
  \/ EnvRelayCompletes
  \/ PageReceives

SpecUi == InitUi /\ [][NextUi]_vars

(***************************************************************************)
(* One tab with its sensor and the Agent behind the command queue.         *)
(***************************************************************************)
InitWatcher ==
  /\ config = InitialConfig
  /\ isCurrentlyTracking = FALSE
  /\ lastAttemptedSendTimestamp = 0
  /\ isSendingLocationData = FALSE
  /\ now = Epoch
  /\ pending = {}
  /\ clients = {"tabA"}
  /\ swActive \in BOOLEAN
  /\ toAgent = <<>>
  /\ inbox = [p \in Tabs |-> <<>>]
  /\ \E d \in {"", "dev1"}, geo \in BOOLEAN :
       page = [p \in Tabs |-> IF p = "tabA" THEN FreshPage(d, geo) ELSE ClosedPage]
  /\ script = 0
  /\ emitted = <<>>
  /\ fate = <<>>
  /\ callLog = <<>>
  /\ prevCallAt = NoTime
  /\ sessionCalls = 0
  /\ stoppedCalls = {}
  /\ localStorage = saveEffects(DefaultStorage, page["tabA"], {"deviceId", "serverUrl", "intervalSeconds"})

PageRegisters == \E p \in clients : RegistrationResolves(p)
UserEditsDeviceId == \E p \in clients, d \in {"", "dev1"} : setDeviceId(p, d)
UserStarts == \E p \in clients : handleStartTracking(p)
UserStops == \E p \in clients : handleStopTracking(p)
SensorFix == \E p \in clients : WatchSuccess(p)
SensorError == \E p \in clients, code \in GeoErrorCodes : WatchError(p, code)

NextWatcher ==
  \/ PageRegisters
  \/ UserEditsDeviceId
  \/ UserStarts
  \/ UserStops
  \/ SensorFix
  \/ SensorError
  \/ PageReceives
  \/ AgentReceive
  \/ SwActivates

SpecWatcher == InitWatcher /\ [][NextWatcher]_vars

(***************************************************************************)
(* The page of src/app/page.tsx: it asks the Permissions API before it     *)
(* watches the sensor, and its registration effect runs again whenever     *)
(* isPageTracking changes.  script is the position of the tab's pending    *)
(* asynchronous work.                                                      *)
(***************************************************************************)
Settled == "settled"
AwaitingPermissionQuery == "awaiting-permission-query"
AwaitingFirstPosition == "awaiting-first-position"
EffectPending == "effect-pending"

PermissionStates == {"granted", "prompt", "denied"}

\* sendCommandToSW (page.tsx:42-51)
sendCommandToSWTsx(pg, q, cmd) ==
  IF pg.registered /\ swActive
  THEN [page |-> pg, queue |-> Append(q, cmd)]
  ELSE [page |-> [pg EXCEPT !.errorMessage = "sw-inactive",
                            !.toast = Toast("service-inactive")],
        queue |-> q]

\* navigator.serviceWorker.onmessage (page.tsx:66-97)
onmessageTsx(pg, m) ==
  IF ~pg.mounted THEN pg
  ELSE CASE m.type = "status" -> [pg EXCEPT !.statusMessage = m.text]
         [] m.type = "error" ->
              [pg EXCEPT !.errorMessage = m.text,
                         !.statusMessage = "service-error",
                         !.toast = [title |-> "service-error", call |-> m.call]]
         [] m.type = "success" ->
              [pg EXCEPT !.statusMessage = m.text,
                         !.errorMessage = "null",
                         !.toast = [title |-> "forwarded", call |-> m.call]]
         [] m.type = "tracking_status" ->
              LET pg1 == [pg EXCEPT !.isSwForwarding = m.isTracking]
                  pg2 == IF (pg.isPageTracking /\ ~m.isTracking /\ m.text # "ready")
                            \/ m.isTracking
                         THEN [pg1 EXCEPT !.statusMessage = m.text]
                         ELSE pg1
              IN IF MentionsFailure(m.text) THEN [pg2 EXCEPT !.errorMessage = m.text] ELSE pg2
         [] OTHER -> pg

\* handlePositionUpdate (page.tsx:167-189) as the watch w calls it
handlePositionUpdateTsx(pg, q, w) ==
  IF ~pg.mounted THEN [page |-> pg, queue |-> q]
  ELSE LET r == sendCommandToSWTsx(pg, q,
                  Command("location-update", Payload(0, w.serverUrl, w.deviceId)))
       IN [page |-> [r.page EXCEPT !.statusMessage = "fix"], queue |-> r.queue]

\* handlePositionError (page.tsx:191-220)
handlePositionErrorTsx(pg, q, code) ==
  IF ~pg.mounted THEN [page |-> pg, queue |-> q]
  ELSE LET pg1 == [pg EXCEPT !.errorMessage = code, !.toast = Toast("gps-error")]
       IN IF code = PERMISSION_DENIED
          THEN LET r == sendCommandToSWTsx([pg1 EXCEPT !.watch = NoWatch,
                                                      !.isPageTracking = FALSE],
                                           q, Command("stop-tracking", NoData))
               IN [page |-> [r.page EXCEPT !.statusMessage = "stopped-denied"],
                   queue |-> r.queue]
          ELSE [page |-> pg1, queue |-> q]

\* startWatcher (page.tsx:237-254)
startWatcher(pg, q) ==
  LET w == [active |-> TRUE, isPageTracking |-> pg.isPageTracking,
            deviceId |-> pg.deviceId, serverUrl |-> pg.serverUrl,
            intervalSeconds |-> pg.intervalSeconds, statusMessage |-> pg.statusMessage]
      r == sendCommandToSWTsx([pg EXCEPT !.watch = w, !.isPageTracking = TRUE,
                                         !.errorMessage = "null",
                                         !.statusMessage = "gps-active",
                                         !.toast = Toast("gps-active")],
                              q,
                              Command("start-tracking",
                                      [config |-> Cfg(pg.deviceId, pg.serverUrl,
                                                      pg.intervalSeconds)]))
  IN [page |-> [r.page EXCEPT !.isUiDisabled = FALSE], queue |-> r.queue]

\* criticalGpsErrorOnPage (page.tsx:378-380): the messages that hold
\* "geolocalização não é suportada" or "permissão de localização negada"
criticalGpsErrorOnPageTsx(pg) ==
  pg.errorMessage \in {"no-geolocation", PERMISSION_DENIED, "permission-denied"}

\* startButtonShouldBeDisabled (page.tsx:382-385)
startButtonShouldBeDisabledTsx(pg) ==
  \/ ~pg.isServiceWorkerActive
  \/ pg.isUiDisabled
  \/ (~pg.isPageTracking /\ (isConfigurationInvalid(pg) \/ criticalGpsErrorOnPageTsx(pg)))

\* what follows a change of isPageTracking from was: the registration effect
\* is scheduled to run again (page.tsx:131)
AfterCommit(pg, was) == IF pg.isPageTracking # was THEN EffectPending ELSE Settled

\* handleStartTracking (page.tsx:292-318) up to the await of
\* navigator.permissions.query (page.tsx:224-235)
TsxStartClicked(p) ==
  LET pg == page[p]
      errs == StartErrors(pg)
      hasError == errs # <<>>
      lastError == errs[Len(errs)]
  IN /\ p \in clients /\ pg.mounted /\ script = Settled
     /\ ~pg.isPageTracking /\ ~startButtonShouldBeDisabledTsx(pg)
     /\ IF hasError
        THEN /\ page' = [page EXCEPT ![p] = [pg EXCEPT !.errorMessage = lastError,
                                                       !.toast = Toast(lastError),
                                                       !.isUiDisabled = FALSE]]
             /\ script' = Settled
        ELSE IF ~pg.hasGeolocation
        THEN /\ page' = [page EXCEPT ![p] = [pg EXCEPT !.errorMessage = "no-geolocation",
                                                       !.toast = Toast("gps-unsupported"),
                                                       !.isUiDisabled = FALSE]]
             /\ script' = Settled
        ELSE /\ page' = [page EXCEPT ![p] = [pg EXCEPT !.errorMessage = "null",
                                                       !.isUiDisabled = TRUE,
                                                       !.statusMessage = "requesting"]]
             /\ script' = AwaitingPermissionQuery
     /\ UNCHANGED <<agentVars, envVars, clients, swActive, localStorage, toAgent, inbox, obsVars>>

\* navigator.permissions.query settles (page.tsx:235, 256-288); "throws" is
\* its rejection
TsxPermissionQueried(p, state) ==
  LET pg == page[p]
      r == startWatcher(pg, toAgent)
  IN /\ p \in clients /\ script = AwaitingPermissionQuery
     /\ Len(toAgent) < MaxQueue
     /\ CASE state = "granted" ->
               /\ page' = [page EXCEPT ![p] = r.page]
               /\ toAgent' = r.queue
               /\ script' = AfterCommit(r.page, pg.isPageTracking)
          [] state = "prompt" ->
               /\ script' = AwaitingFirstPosition
               /\ UNCHANGED <<page, toAgent>>
          [] state = "denied" ->
               /\ page' = [page EXCEPT ![p] = [pg EXCEPT !.errorMessage = "permission-denied",
                                                         !.toast = Toast("permission-denied"),
                                                         !.isUiDisabled = FALSE]]
               /\ script' = Settled
               /\ UNCHANGED toAgent
          [] OTHER ->
               /\ page' = [page EXCEPT ![p] = [pg EXCEPT !.errorMessage = "permission-query-error",
                                                         !.toast = Toast("permission-error"),
                                                         !.isUiDisabled = FALSE]]
               /\ script' = Settled
               /\ UNCHANGED toAgent
     /\ UNCHANGED <<agentVars, envVars, clients, swActive, localStorage, inbox, obsVars>>

\* the success callback of getCurrentPosition (page.tsx:262-265)
TsxFirstPosition(p) ==
  LET pg == page[p]
      here == [NoWatch EXCEPT !.deviceId = pg.deviceId, !.serverUrl = pg.serverUrl]
      r1 == handlePositionUpdateTsx(pg, toAgent, here)
      r2 == startWatcher(r1.page, r1.queue)
  IN /\ p \in clients /\ script = AwaitingFirstPosition
     /\ Len(toAgent) + 2 <= MaxQueue
     /\ page' = [page EXCEPT ![p] = r2.page]
     /\ toAgent' = r2.queue
     /\ script' = AfterCommit(r2.page, pg.isPageTracking)
     /\ UNCHANGED <<agentVars, envVars, clients, swActive, localStorage, inbox, obsVars>>

\* the error callback of getCurrentPosition (page.tsx:266-270)
TsxFirstPositionError(p, code) ==
  LET pg == page[p]
      r == handlePositionErrorTsx(pg, toAgent, code)
  IN /\ p \in clients /\ script = AwaitingFirstPosition
     /\ Len(toAgent) < MaxQueue
     /\ page' = [page EXCEPT ![p] = [r.page EXCEPT !.isUiDisabled = FALSE]]
     /\ toAgent' = r.queue
     /\ script' = AfterCommit(r.page, pg.isPageTracking)
     /\ UNCHANGED <<agentVars, envVars, clients, swActive, localStorage, inbox, obsVars>>

\* the cleanup of the registration effect, and the effect run again up to
\* its call of register (page.tsx:53-56, 120-131): the watch is cleared and
\* the message handler removed until the registration resolves
TsxEffectRunsAgain(p) ==
  /\ p \in clients /\ script = EffectPending
  /\ page' = [page EXCEPT ![p] = [page[p] EXCEPT !.watch = NoWatch, !.listening = FALSE]]
  /\ script' = Settled
  /\ UNCHANGED <<agentVars, envVars, clients, swActive, localStorage, toAgent, inbox, obsVars>>

\* the .then of navigator.serviceWorker.register (page.tsx:57-98)
TsxRegistrationResolves(p) ==
  LET pg == page[p]
      r == sendCommandToSWTsx([pg EXCEPT !.isServiceWorkerActive = TRUE,
                                         !.statusMessage = "registered",
                                         !.toast = Toast("service-registered")],
                              toAgent, Command("get-status", NoData))
  IN /\ p \in clients /\ pg.mounted /\ ~pg.listening /\ script = Settled
     /\ Len(toAgent) < MaxQueue
     /\ page' = [page EXCEPT ![p] = [r.page EXCEPT !.listening = TRUE]]
     /\ toAgent' = r.queue
     /\ UNCHANGED <<agentVars, envVars, clients, swActive, localStorage, script, inbox, obsVars>>

\* a callback of the watch that startWatcher created (page.tsx:241-245)
TsxWatchFix(p) ==
  LET pg == page[p]
      r == handlePositionUpdateTsx(pg, toAgent, pg.watch)
  IN /\ p \in clients /\ pg.watch.active
     /\ Len(toAgent) < MaxQueue
     /\ page' = [page EXCEPT ![p] = r.page]
     /\ toAgent' = r.queue
     /\ UNCHANGED <<agentVars, envVars, clients, swActive, localStorage, script, inbox, obsVars>>

TsxWatchError(p, code) ==
  LET pg == page[p]
      r == handlePositionErrorTsx(pg, toAgent, code)
  IN /\ p \in clients /\ pg.watch.active
     /\ Len(toAgent) < MaxQueue
     /\ page' = [page EXCEPT ![p] = r.page]
     /\ toAgent' = r.queue
     /\ script' = (IF script = EffectPending THEN EffectPending
                   ELSE AfterCommit(r.page, pg.isPageTracking))
     /\ UNCHANGED <<agentVars, envVars, clients, swActive, localStorage, inbox, obsVars>>

\* handleStopTracking (page.tsx:320-332)
TsxStopClicked(p) ==
  LET pg == page[p]
      r == sendCommandToSWTsx([pg EXCEPT !.watch = NoWatch, !.isPageTracking = FALSE],
                              toAgent, Command("stop-tracking", NoData))
  IN /\ p \in clients /\ pg.mounted /\ script = Settled
     /\ pg.isPageTracking /\ ~startButtonShouldBeDisabledTsx(pg)
     /\ Len(toAgent) < MaxQueue
     /\ page' = [page EXCEPT ![p] = [r.page EXCEPT !.toast = Toast("tracking-stopped"),
                                                   !.statusMessage = "stopped-by-user",
                                                   !.isUiDisabled = FALSE]]
     /\ toAgent' = r.queue
     /\ script' = EffectPending
     /\ UNCHANGED <<agentVars, envVars, clients, swActive, localStorage, inbox, obsVars>>

\* the tab takes the next message of the Agent from its queue; a message
\* that arrives while no handler is set is lost
TsxOnMessage(p) ==
  /\ p \in clients /\ inbox[p] # <<>>
  /\ page' = [page EXCEPT ![p] = IF page[p].listening
                                 THEN onmessageTsx(page[p], Head(inbox[p]))
                                 ELSE page[p]]
  /\ inbox' = [inbox EXCEPT ![p] = Tail(inbox[p])]
  /\ UNCHANGED <<agentVars, envVars, clients, swActive, localStorage, toAgent, script, obsVars>>

InitPermission ==
  /\ config = InitialConfig
  /\ isCurrentlyTracking = FALSE
  /\ lastAttemptedSendTimestamp = 0
  /\ isSendingLocationData = FALSE
  /\ now = Epoch
  /\ pending = {}
  /\ clients = {"tabA"}
  /\ swActive = TRUE
  /\ toAgent = <<>>
  /\ inbox = [p \in Tabs |-> <<>>]
  /\ \E geo \in BOOLEAN :
       page = [p \in Tabs |-> IF p = "tabA"
                              THEN [RegisteredPage("dev1") EXCEPT !.hasGeolocation = geo]
                              ELSE ClosedPage]
  /\ script = Settled
  /\ emitted = <<>>
  /\ fate = <<>>
  /\ callLog = <<>>
  /\ prevCallAt = NoTime
  /\ sessionCalls = 0
  /\ stoppedCalls = {}
  /\ localStorage = saveEffects(DefaultStorage, page["tabA"], {"deviceId", "serverUrl", "intervalSeconds"})

TsxUserStarts == \E p \in clients : TsxStartClicked(p)
TsxPermissionAnswer ==
  \E p \in clients, state \in PermissionStates \cup {"throws"} : TsxPermissionQueried(p, state)
TsxPromptGranted == \E p \in clients : TsxFirstPosition(p)
TsxPromptFails == \E p \in clients, code \in GeoErrorCodes : TsxFirstPositionError(p, code)
TsxEffect == \E p \in clients : TsxEffectRunsAgain(p)
TsxRegisters == \E p \in clients : TsxRegistrationResolves(p)
TsxSensorFix == \E p \in clients : TsxWatchFix(p)
TsxSensorError == \E p \in clients, code \in GeoErrorCodes : TsxWatchError(p, code)
TsxUserStops == \E p \in clients : TsxStopClicked(p)
TsxReceives == \E p \in clients : TsxOnMessage(p)
TsxAgentReceive == AgentReceive /\ UNCHANGED script

NextPermission ==
  \/ TsxUserStarts
  \/ TsxPermissionAnswer
  \/ TsxPromptGranted
  \/ TsxPromptFails
  \/ TsxEffect
  \/ TsxRegisters
  \/ TsxSensorFix
  \/ TsxSensorError
  \/ TsxUserStops
  \/ TsxReceives
  \/ TsxAgentReceive

SpecPermission == InitPermission /\ [][NextPermission]_vars

(***************************************************************************)
(* handleStartTracking applied to every state of the form: the tab starts  *)
(* with any device id, server URL and interval the fields can hold, and    *)
(* the handler runs whether or not the button that calls it is enabled.    *)
(***************************************************************************)
FormDeviceIds == {"", "dev1"}
FormServerUrls == {"", FtpUrl, HttpUrl}
FormIntervals == {NaN, 0, 1}

InitStart ==
  /\ config = InitialConfig
  /\ isCurrentlyTracking = FALSE
  /\ lastAttemptedSendTimestamp = 0
  /\ isSendingLocationData = FALSE
  /\ now = Epoch
  /\ pending = {}
  /\ clients = {"tabA"}
  /\ swActive = TRUE
  /\ toAgent = <<>>
  /\ inbox = [p \in Tabs |-> <<>>]
  /\ \E d \in FormDeviceIds, u \in FormServerUrls, i \in FormIntervals, a \in BOOLEAN :
       page = [p \in Tabs |->
                 IF p = "tabA"
                 THEN [RegisteredPage(d) EXCEPT !.serverUrl = u, !.intervalSeconds = i,
                                                !.isServiceWorkerActive = a]
                 ELSE ClosedPage]
  /\ script = 0
  /\ emitted = <<>>
  /\ fate = <<>>
  /\ callLog = <<>>
  /\ prevCallAt = NoTime
  /\ sessionCalls = 0
  /\ stoppedCalls = {}
  /\ localStorage = saveEffects(DefaultStorage, page["tabA"], {"deviceId", "serverUrl", "intervalSeconds"})

\* handleStartTracking (part_005:722-751) called on the tab as it is
StartRequested(p) ==
  LET pg == page[p]
  IN /\ p \in clients /\ pg.mounted
     /\ ~pg.isPageTracking
     /\ page' = [page EXCEPT ![p] = StartRequest(pg)]
     /\ UNCHANGED <<agentVars, envVars, clients, swActive, localStorage, toAgent, script, inbox, obsVars>>

StartRequests == \E p \in clients : StartRequested(p)

NextStart ==
  \/ StartRequests
  \/ UserStops
  \/ SensorFix
  \/ SensorError
  \/ PageReceives
  \/ AgentReceive

SpecStart == InitStart /\ [][NextStart]_vars

(***************************************************************************)
(* Two tabs of the same origin and the one Agent: tabs open, register      *)
(* (which asks the Agent for its status) and close, while commands start   *)
(* and stop the forwarding.                                                *)
(***************************************************************************)
InitTabs ==
  /\ config = InitialConfig
  /\ isCurrentlyTracking = FALSE
  /\ lastAttemptedSendTimestamp = 0
  /\ isSendingLocationData = FALSE
  /\ now = Epoch
  /\ pending = {}
  /\ clients = {}
  /\ swActive = TRUE
  /\ toAgent = <<>>
  /\ inbox = [p \in Tabs |-> <<>>]
  /\ page = [p \in Tabs |-> ClosedPage]
  /\ script = 0
  /\ emitted = <<>>
  /\ fate = <<>>
  /\ callLog = <<>>
  /\ prevCallAt = NoTime
  /\ sessionCalls = 0
  /\ stoppedCalls = {}
  /\ localStorage = saveEffects(DefaultStorage, FreshPage("dev1", TRUE), {"deviceId", "serverUrl", "intervalSeconds"})

\* a window of the origin opens: clients.matchAll({includeUncontrolled:
\* true}) returns it from then on (part_007:13-16)
TabOpens(p) ==
  /\ p \notin clients
  /\ clients' = clients \cup {p}
  /\ page' = [page EXCEPT ![p] = FreshPage("dev1", TRUE)]
  /\ inbox' = [inbox EXCEPT ![p] = <<>>]
  /\ UNCHANGED <<agentVars, envVars, swActive, localStorage, toAgent, script, obsVars>>

\* the window closes
TabCloses(p) ==
  /\ p \in clients
  /\ clients' = clients \ {p}
  /\ page' = [page EXCEPT ![p] = ClosedPage]
  /\ inbox' = [inbox EXCEPT ![p] = <<>>]
  /\ UNCHANGED <<agentVars, envVars, swActive, localStorage, toAgent, script, obsVars>>

TabsStart == StartTracking(ScenarioConfig) /\ UNCHANGED <<pageVars, script>>

NextTabs ==
  \/ \E p \in Tabs : TabOpens(p)
  \/ \E p \in Tabs : TabCloses(p)
  \/ PageRegisters
  \/ TabsStart
  \/ EnvStop
  \/ AgentReceive
  \/ PageReceives

SpecTabs == InitTabs /\ [][NextTabs]_vars

(***************************************************************************)
(* Properties of the tab and the Agent together.                           *)
(***************************************************************************)

\* C10 as the specification states it: the result of a relay call that was
\* begun before a stop-tracking and completes after it is dropped: no page
\* shows a success or an error for that call.
C10_StaleResultDropped == \A p \in Tabs : page[p].toast.call \notin stoppedCalls

\* C10, amended: the completion of such a call still sends its one success
\* or error message to every client, and a page that listens shows it like
\* any other: as a toast and in its status and error messages.
C10_StaleResultSurfaced ==
  /\ [][ \A id \in pending \cap stoppedCalls :
           id \notin pending'
             => /\ Len(emitted') = 1
                /\ IsTerminal(emitted'[1])
                /\ emitted'[1].call = id
                /\ \A p \in clients : inbox'[p] = Append(inbox[p], emitted'[1]) ]_vars
  /\ [][ \A p \in clients :
           (OnMessage(p) /\ page[p].listening /\ IsTerminal(Head(inbox[p])) /\ Head(inbox[p]).call \in stoppedCalls)
             => LET m == Head(inbox[p])
                IN /\ page'[p].toast.call = m.call
                   /\ page'[p].toast.title =
                        (IF m.type = "success" THEN "forwarded" ELSE "service-error")
                   /\ page'[p].errorMessage = (IF m.type = "success" THEN "null" ELSE m.text) ]_vars

\* a tab shows the result of a call that a stop-tracking found outstanding
C10_Witness == \E p \in clients : page[p].toast.call \in stoppedCalls

\* C5: when the sensor reports PERMISSION_DENIED to a tab that is tracking
\* (and can reach the service worker), the tab clears its watch, stops
\* tracking and posts one stop-tracking command.
C5_PermissionDeniedStops ==
  [][ \A p \in clients :
        (page[p].isPageTracking /\ page[p].registered /\ swActive
           /\ WatchError(p, PERMISSION_DENIED))
          => /\ ~page'[p].watch.active
             /\ ~page'[p].isPageTracking
             /\ toAgent' = Append(toAgent, Command("stop-tracking", NoData)) ]_vars

TransientCodes == {POSITION_UNAVAILABLE, TIMEOUT}

C11_StopThenIgnore ==
  /\ [][ StopTracking
           => /\ ~isCurrentlyTracking'
              /\ ~isSendingLocationData'
              /\ emitted' = <<TrackingStatusMsg(FALSE, "stopped")>> ]_vars
  /\ [][ (~isCurrentlyTracking /\ isCurrentlyTracking')
           => \E cfg \in StartConfigs \cup {ScenarioConfig} : StartTracking(cfg) ]_vars
  /\ [][ (~isCurrentlyTracking /\ Len(fate') = Len(fate) + 1)
           => /\ pending' = pending
              /\ callLog' = callLog
              /\ emitted' = <<>>
              /\ inbox' = inbox
              /\ agentVars' = agentVars ]_vars

\* the first sample was sent, a stop-tracking followed, and the last command
\* handled was a location-update that found forwarding disabled
C11_Witness ==
  /\ fate = <<"sent", "ignored">>
  /\ ~isCurrentlyTracking
  /\ emitted = <<>>
  /\ stoppedCalls = {1}

\* C12: the in-flight flag is set when a relay call begins and is clear when
\* a relay call has ended, however it ended; as every relay call ends, the
\* flag never stays set forever.
C12_InFlightCleared ==
  /\ [][ Len(callLog') = Len(callLog) + 1 => isSendingLocationData' ]_vars
  /\ [][ \A id \in pending, class \in RelayClasses :
           RelayCompletes(id, class) => ~isSendingLocationData' ]_vars
  /\ [](isSendingLocationData => pending # {})
  /\ []<>(~isSendingLocationData)

\* a call has ended by a rejected fetch or an unparsable body, and the flag
\* is clear
C12_Witness ==
  /\ Len(callLog) = 1
  /\ callLog[1].terminal = <<"error">>
  /\ emitted = <<ErrorMsg("network-error", 1)>>
  /\ ~isSendingLocationData

\* C13: a relay call begins only in the step that handles a location-update
\* and carries that sample; no other command and no completion begins one,
\* so there are never more calls than location-updates handled.
C13_CallsOnlyFromSamples ==
  /\ [][ callLog' # callLog /\ Len(callLog') # Len(callLog)
           => /\ Len(callLog') = Len(callLog) + 1
              /\ Len(fate') = Len(fate) + 1
              /\ callLog'[Len(callLog')].data.fix = Len(fate') ]_vars
  /\ [](Len(callLog) <= Len(fate))

\* a call has failed, commands of every other kind were handled after it,
\* and no further call was begun
C13_Witness ==
  /\ Len(callLog) = 1
  /\ callLog[1].terminal = <<"error">>
  /\ pending = {}
  /\ emitted = <<StatusMsg("config-updated")>>
  /\ isCurrentlyTracking

\* C19: an update-config merges its fields into the stored config and
\* changes nothing else of the Agent; it begins no relay call.
C19_UpdateConfigFrame ==
  [][ \A p \in ConfigUpdates :
        UpdateConfig(p)
          => /\ config' = [config EXCEPT !.intervalSeconds = p.intervalSeconds]
             /\ lastAttemptedSendTimestamp' = lastAttemptedSendTimestamp
             /\ isCurrentlyTracking' = isCurrentlyTracking
             /\ isSendingLocationData' = isSendingLocationData
             /\ pending' = pending
             /\ callLog' = callLog ]_vars

\* an update-config changed the interval while forwarding was enabled, a
\* delivery was in flight and the throttle timestamp was set
C19_Witness ==
  /\ emitted = <<StatusMsg("config-updated")>>
  /\ isCurrentlyTracking
  /\ isSendingLocationData
  /\ lastAttemptedSendTimestamp # 0
  /\ config.intervalSeconds = 2
  /\ callLog[1].data.fix = 1

\* C20: a get-status sends one tracking_status whose isTracking is the
\* Agent's isCurrentlyTracking and changes nothing of the Agent.
C20_GetStatusFrame ==
  [][ GetStatus
        => /\ Len(emitted') = 1
           /\ emitted'[1].type = "tracking_status"
           /\ emitted'[1].isTracking = isCurrentlyTracking
           /\ agentVars' = agentVars
           /\ pending' = pending
           /\ callLog' = callLog ]_vars

\* a get-status was answered "tracking" while a delivery was in flight
C20_Witness ==
  /\ emitted = <<TrackingStatusMsg(TRUE, "active")>>
  /\ isSendingLocationData
  /\ pending # {}

(***************************************************************************)
(* Properties of the tab's watch of the sensor.                            *)
(***************************************************************************)
\* C14: while a tab is tracking (and can reach the service worker), every
\* fix the sensor reports is posted to the Agent as one location-update
\* command, and the tab keeps tracking.
C14_FixRelayed ==
  [][ \A p \in clients :
        (page[p].isPageTracking /\ page[p].registered /\ swActive /\ WatchSuccess(p))
          => /\ \E d \in {"", "dev1"}, u \in {DEFAULT_SERVER_URL, HttpUrl, FtpUrl, ""} :
                  toAgent' = Append(toAgent, Command("location-update", Payload(0, u, d)))
             /\ page'[p].isPageTracking
             /\ page'[p].watch.active ]_vars

\* C15: the stop button of a tracking tab clears the watch, ends the tab's
\* tracking and posts exactly one stop-tracking command; as long as the tab
\* has no watch, it posts no location-update and no start-tracking.
C15_StopCancelsWatch ==
  /\ [][ \A p \in clients :
           handleStopTracking(p)
             => /\ ~page'[p].watch.active
                /\ ~page'[p].isPageTracking
                /\ ~page'[p].isUiDisabled
                /\ toAgent' = Append(toAgent, Command("stop-tracking", NoData)) ]_vars
  /\ [][ (Len(toAgent') = Len(toAgent) + 1
            /\ toAgent'[Len(toAgent')].command \in {"location-update", "start-tracking"})
           => \E p \in clients : page[p].watch.active ]_vars

\* the user has stopped a tab that was tracking, and the Agent has handled
\* the stop-tracking command
C15_Witness ==
  \E p \in clients :
    /\ page[p].toast = Toast("tracking-stopped")
    /\ ~page[p].isPageTracking
    /\ ~page[p].watch.active
    /\ toAgent = <<>>
    /\ emitted = <<TrackingStatusMsg(FALSE, "stopped")>>

\* C16: when the permission is denied, or the browser has no geolocation,
\* while a tab of page.tsx is requesting the permission, the tab ends with
\* no tracking, no watch, its controls enabled and an error message, and
\* posts no command to the Agent.
C16_DenialContactsNoAgent ==
  [][ \A p \in clients :
        (\/ (~page[p].hasGeolocation /\ TsxStartClicked(p))
         \/ TsxPermissionQueried(p, "denied")
         \/ TsxFirstPositionError(p, PERMISSION_DENIED))
          => /\ toAgent' = toAgent
             /\ ~page'[p].isPageTracking
             /\ ~page'[p].watch.active
             /\ ~page'[p].isUiDisabled
             /\ page'[p].errorMessage # "null"
             /\ script' = Settled ]_vars

\* the fields of the form that are not valid: an empty device id, a server
\* URL that is not a well-formed http or https URL, an interval that is not
\* an integer of at least 1
InvalidFields(pg) ==
  {f \in {"device-id"} : pg.deviceId = ""}
    \cup {f \in {"server-url"} : ~isValidHttpUrl(pg.serverUrl)}
    \cup {f \in {"interval"} : ~(pg.intervalSeconds >= 1)}

ToastsShown(pg) ==
  LET ts == VisibleToasts(StartErrors(pg)) IN {ts[k] : k \in 1..Len(ts)}

\* C17: handleStartTracking on a form with an invalid field starts nothing:
\* the tab is not tracking and has no watch, nothing is posted to the Agent,
\* the error message and a toast on screen name an invalid field (the error
\* message names the service instead when the service is not active); so
\* no start-tracking command ever carries an invalid configuration.
C17_InvalidStartRefused ==
  /\ [][ \A p \in clients :
           (StartRequested(p) /\ InvalidFields(page[p]) # {})
             => /\ ~page'[p].isPageTracking
                /\ ~page'[p].watch.active
                /\ ~page'[p].isUiDisabled
                /\ toAgent' = toAgent
                /\ agentVars' = agentVars
                /\ page'[p].errorMessage
                     \in InvalidFields(page[p]) \cup {"service-not-active"}
                /\ (page[p].isServiceWorkerActive
                      => page'[p].errorMessage \in InvalidFields(page[p]))
                /\ page'[p].toast = Toast(page'[p].errorMessage)
                /\ InvalidFields(page[p]) \cap ToastsShown(page[p]) # {} ]_vars
  /\ [](\A k \in 1..Len(toAgent) :
          toAgent[k].command = "start-tracking" => ValidConfig(toAgent[k].data.config))
  /\ [](\A p \in clients :
          page[p].watch.active => InvalidFields(page[p]) = {})

\* a start was requested with an empty device id, the other fields valid:
\* the tab names the device id and has no watch
C17_Witness ==
  \E p \in clients :
    /\ page[p].deviceId = ""
    /\ page[p].errorMessage = "device-id"
    /\ page[p].toast = Toast("device-id")
    /\ ~page[p].watch.active
    /\ ~page[p].isPageTracking
    /\ toAgent = <<>>

\* C18: every tracking_status the Agent sends (for a start-tracking, a
\* stop-tracking or a get-status) is posted to every client there is at
\* that moment, whichever tab sent the command.
C18_StatusBroadcast ==
  /\ [][ (StartTracking(ScenarioConfig) \/ StopTracking \/ GetStatus)
           => /\ Len(emitted') = 1
              /\ emitted'[1].type = "tracking_status"
              /\ emitted'[1].isTracking = isCurrentlyTracking'
              /\ \A p \in clients : inbox'[p] = Append(inbox[p], emitted'[1]) ]_vars
  /\ [][ (emitted' # emitted /\ \E k \in 1..Len(emitted') :
                                   emitted'[k].type = "tracking_status")
           => \A p \in clients : inbox'[p] = inbox[p] \o emitted' ]_vars

\* two tabs are open; one has registered and its get-status has been
\* answered: the answer is in the queue of both
C18_Witness ==
  /\ clients = Tabs
  /\ \E p \in Tabs : page[p].registered /\ ~page[CHOOSE q \in Tabs : q # p].registered
  /\ emitted = <<TrackingStatusMsg(TRUE, "active")>>
  /\ \A p \in Tabs : inbox[p] # <<>> /\ inbox[p][Len(inbox[p])] = emitted[1]

C29_TimestampIsLastCall ==
  [][ lastAttemptedSendTimestamp' # lastAttemptedSendTimestamp
        => \/ lastAttemptedSendTimestamp' = 0
           \/ (Len(callLog') = Len(callLog) + 1 /\ lastAttemptedSendTimestamp' = now) ]_vars

\* C30: a location-update handled while forwarding is disabled, or while the
\* config has no device id or no server URL, or inside the throttle window,
\* changes nothing of the Agent, begins no relay call and sends no message.
C30_DroppedSampleNoOp ==
  [][ (Len(fate') = Len(fate) + 1
         /\ (\/ ~isCurrentlyTracking
             \/ config.deviceId = ""
             \/ config.serverUrl = ""
             \/ now - lastAttemptedSendTimestamp < config.intervalSeconds * MsPerSecond))
        => /\ agentVars' = agentVars
           /\ pending' = pending
           /\ callLog' = callLog
           /\ emitted' = <<>>
           /\ inbox' = inbox
           /\ fate'[Len(fate')] \in {"ignored", "throttled"} ]_vars

\* a sample was throttled while the Agent forwarded with a complete config
C30_Witness ==
  /\ fate = <<"sent", "throttled">>
  /\ isCurrentlyTracking
  /\ emitted = <<>>
  /\ lastAttemptedSendTimestamp = prevCallAt
  /\ now > prevCallAt

(***************************************************************************)
(* Commands of a tab that cannot reach the service worker.                 *)
(***************************************************************************)
\* C21: a command a tab issues while it has no active service worker is not
\* put in the Agent's queue, then or later: the queue grows only in a step
\* of a tab that is registered with an active service worker, and the tab
\* shows the service-inactive error instead.
C21_UnreachableNotDelivered ==
  /\ [][ \A p \in clients :
           (RegistrationResolves(p) /\ ~swActive)
             => /\ toAgent' = toAgent
                /\ page'[p].errorMessage = "sw-inactive"
                /\ page'[p].toast = Toast("service-inactive") ]_vars
  /\ [][ Len(toAgent') > Len(toAgent)
           => swActive /\ \E p \in clients : page'[p].registered ]_vars
  /\ [][ SwActivates => toAgent' = toAgent ]_vars

\* the tab registered before the service worker was active; the worker is
\* active now and has never received the tab's get-status
C21_Witness ==
  \E p \in clients :
    /\ page[p].registered
    /\ page[p].errorMessage = "sw-inactive"
    /\ swActive
    /\ toAgent = <<>>
    /\ emitted = <<>>

\* C28: a tab posts start-tracking once per session, when its first fix
\* arrives; a fix that arrives while the tab is tracking posts no
\* start-tracking.
C28_StartOncePerSession ==
  [][ \A p \in clients :
        (page[p].isPageTracking /\ WatchSuccess(p))
          => ~(/\ Len(toAgent') > Len(toAgent)
               /\ toAgent'[Len(toAgent')].command = "start-tracking") ]_vars

(***************************************************************************)
(* The HTTP status of the relay endpoint.                                  *)
(***************************************************************************)
\* C26: the status of the relay endpoint's answer tells the outcome: 200
\* exactly when the delivery succeeded, 400 for a validation failure, 502
\* when the remote server answered with a server error, 504 when the call
\* to the remote server timed out.
C26_StatusReflectsOutcome ==
  [][ \A id \in pending, class \in RelayClasses, remote \in RemoteAnswers :
        RelayCompletes(id, class)
          => /\ (HttpStatus(class, remote) = 200) <=> (class = "success")
             /\ class = "validation" => HttpStatus(class, remote) = 400
             /\ (class = "remote-rejected" /\ remote.status >= 500)
                  => HttpStatus(class, remote) = 502
             /\ class = "timeout" => HttpStatus(class, remote) = 504 ]_vars

(***************************************************************************)
(* The tabs and the storage of their origin: a tab mounts and loads what   *)
(* is stored, the user edits the three fields, the save effects write them *)
(* back, the tab closes. The stored items a first mount finds are any a    *)
(* former visit or another script of the origin left.                      *)
(***************************************************************************)
InitStorage ==
  /\ config = InitialConfig
  /\ isCurrentlyTracking = FALSE
  /\ lastAttemptedSendTimestamp = 0
  /\ isSendingLocationData = FALSE
  /\ now = Epoch
  /\ pending = {}
  /\ clients = {}
  /\ swActive = TRUE
  /\ toAgent = <<>>
  /\ inbox = [p \in Tabs |-> <<>>]
  /\ page = [p \in Tabs |-> ClosedPage]
  /\ script = 0
  /\ emitted = <<>>
  /\ fate = <<>>
  /\ callLog = <<>>
  /\ prevCallAt = NoTime
  /\ sessionCalls = 0
  /\ stoppedCalls = {}
  /\ \E a \in BOOLEAN, d \in StoredDeviceIds, u \in StoredServerUrls, i \in StoredIntervals :
       localStorage = [available |-> a, traccarDeviceId |-> d, traccarServerUrl |-> u,
                       traccarIntervalSeconds |-> i]

NextStorage ==
  \/ \E p \in {"tabA"}, geo \in BOOLEAN : PageMounts(p, geo)
  \/ \E p \in {"tabA"} : TabCloses(p)
  \/ \E p \in {"tabA"}, d \in TypedDeviceIds : setDeviceId(p, d)
  \/ \E p \in {"tabA"}, u \in TypedServerUrls : handleServerUrlChange(p, u)
  \/ \E p \in {"tabA"}, t \in TypedIntervals : handleIntervalChange(p, t)
  \/ StorageBreaks

SpecStorage == InitStorage /\ [][NextStorage]_vars

\* C24 as the specification states it: with the storage unavailable,
\* neither the load nor a save takes the page down; every open tab keeps
\* its component mounted.
C24_StorageFailureTolerated == \A p \in clients : page[p].mounted

\* C22: a tab that mounts while the storage holds what the save effects
\* write for a configuration whose three fields are valid loads that
\* configuration, field for field, and leaves the stored items as they
\* were.
C22_RoundTrip ==
  [][ \A p \in Tabs, d \in {"dev1", "dev2"}, u \in {HttpUrl, DEFAULT_SERVER_URL},
         i \in 1..DefaultIntervalSeconds :
        ( /\ p \notin clients /\ p \in clients'
          /\ localStorage.available
          /\ localStorage = saveEffects(localStorage, Cfg(d, u, i), AllFields) )
        => /\ page'[p].mounted
           /\ page'[p].deviceId = d
           /\ page'[p].serverUrl = u
           /\ page'[p].intervalSeconds = i
           /\ localStorage' = localStorage ]_vars

\* a tab that loaded the device id a former visit stored shows the interval
\* the user typed and the save effect stored: the stored items are those of
\* its three valid fields
C22_Witness ==
  /\ "tabA" \in clients /\ page["tabA"].mounted
  /\ page["tabA"].deviceId = "dev1"
  /\ page["tabA"].serverUrl = HttpUrl
  /\ page["tabA"].intervalSeconds = 3
  /\ localStorage = saveEffects(localStorage, page["tabA"], AllFields)

\* C23: a server URL that is empty or not an http/https URL, typed into
\* the field, changes nothing in the storage; and whenever the stored
\* server URL changes, the new item is a valid http/https URL.
C23_InvalidUrlNeverPersisted ==
  [][ /\ \A p \in Tabs, u \in TypedServerUrls :
           (handleServerUrlChange(p, u) /\ (u = "" \/ ~isValidHttpUrl(u)))
             => localStorage' = localStorage
      /\ localStorage'.traccarServerUrl # localStorage.traccarServerUrl
           => \E u \in localStorage'.traccarServerUrl :
                 localStorage'.traccarServerUrl = {u} /\ isValidHttpUrl(u) ]_vars

\* the field shows the invalid URL the user typed while the storage keeps
\* the valid one
C23_Witness ==
  /\ "tabA" \in clients /\ page["tabA"].mounted
  /\ page["tabA"].serverUrl = FtpUrl
  /\ page["tabA"].errorMessage = "server-url-invalid"
  /\ localStorage.traccarServerUrl = {HttpUrl}

\* C25 as the specification states it: a mount with the storage available
\* loads the stored server URL when it is a valid http/https URL and the
\* default otherwise, and loads the stored interval when its text is that
\* of an integer >= 1 and the default 10 otherwise.
C25_LoadAppliesDefaults ==
  [][ \A p \in Tabs :
        (p \notin clients /\ p \in clients' /\ localStorage.available)
        => /\ page'[p].serverUrl =
                IF \E u \in localStorage.traccarServerUrl : isValidHttpUrl(u)
                THEN CHOOSE u \in localStorage.traccarServerUrl : TRUE
                ELSE DEFAULT_SERVER_URL
           /\ page'[p].intervalSeconds =
                IF \E n \in 1..DefaultIntervalSeconds :
                     localStorage.traccarIntervalSeconds = {toString(n)}
                THEN CHOOSE n \in 1..DefaultIntervalSeconds :
                       localStorage.traccarIntervalSeconds = {toString(n)}
                ELSE 10 ]_vars

\* C31: the Agent retains no sample. The relay calls that carry the k-th
\* location-update are one when that update was sent and none when it was
\* dropped (ignored, throttled or met a call in flight), at every later
\* time; and a call is begun only in the step that handles the update it
\* carries.
C31_NoSampleRetained ==
  /\ [](\A k \in 1..Len(fate) :
          Cardinality({i \in 1..Len(callLog) : callLog[i].data.fix = k})
            = IF fate[k] = "sent" THEN 1 ELSE 0)
  /\ [][ \A i \in 1..Len(callLog') :
           i > Len(callLog)
             => /\ Len(fate') = Len(fate) + 1
                /\ callLog'[i].data.fix = Len(fate')
                /\ i = Len(callLog) + 1 ]_vars

\* the second sample met the call of the first in flight and was dropped;
\* that call has completed since and no call was made for the second
C31_Witness ==
  /\ fate = <<"sent", "inflight">>
  /\ Len(callLog) = 1
  /\ callLog[1].terminal # <<>>
  /\ pending = {}
  /\ ~isSendingLocationData

\* C33 as the specification states it: the destination of a relay call is
\* the server URL and the device id of the Agent's stored config at the
\* moment the call is begun.
C33_DestinationIsStoredConfig ==
  [][ Len(callLog') > Len(callLog)
        => /\ callLog'[Len(callLog')].data.serverUrl = config.serverUrl
           /\ callLog'[Len(callLog')].data.deviceId = config.deviceId ]_vars

\* C39: when a relay call settles, the Agent sends exactly one message: a
\* success message when the relay answered with a 2xx status and a body
\* whose success field is true, and an error message in every other
\* outcome (another status, success false, a body that is not JSON, a
\* fetch that rejects).
C39_SuccessOnlyOn2xxAndTrue ==
  [][ (pending' \subseteq pending /\ pending' # pending)
        => \A id \in pending \ pending' :
             \A class \in RelayClasses :
               (emitted' = TerminalMessages(id, class) /\ RelayCompletes(id, class))
                 => \A remote \in RemoteAnswers :
                      LET answered == ~FetchThrows(class) /\ ~JsonThrows(class)
                          delivered == /\ answered
                                       /\ HttpStatus(class, remote) \in 200..299
                                       /\ ResultSuccess(class)
                      IN /\ Len(emitted') = 1
                         /\ emitted'[1].call = id
                         /\ emitted'[1].type = IF delivered THEN "success" ELSE "error" ]_vars

\* the relay answered the first call with a status outside 2xx: the one
\* message sent for it is an error message
C39_Witness ==
  /\ Len(callLog) >= 1
  /\ callLog[1].terminal = <<"error">>
  /\ emitted = <<ErrorMsg("api-error", 1)>>
  /\ 1 \notin pending

\* C34 as the specification states it: a mounted page whose Watcher is
\* Watching (isPageTracking) holds an active sensor watch.
C34_WatchingHasSubscription ==
  \A p \in clients :
    (page[p].mounted /\ page[p].isPageTracking) => page[p].watch.active

\* C35 as the specification states it: a mounted page whose Watcher is
\* Idle (not tracking, no start request pending) holds no active sensor
\* watch.
C35_IdleHasNoSubscription ==
  \A p \in clients :
    (page[p].mounted /\ ~page[p].isPageTracking /\ ~page[p].isUiDisabled)
      => ~page[p].watch.active

\* C38 as the specification states it: a location-update is posted to the
\* Agent only by a page that is tracking already, so that its start-tracking
\* command is ahead of it in the queue.
C38_StartBeforeFirstUpdate ==
  [][ \A i \in 1..Len(toAgent') :
        (i > Len(toAgent) /\ toAgent'[i].command = "location-update")
          => \/ \E p \in clients : page[p].isPageTracking
             \/ \E j \in (Len(toAgent) + 1)..(i - 1) : toAgent'[j].command = "start-tracking" ]_vars

(***************************************************************************)
(* One registered tab whose user edits the interval while the page tracks: *)
(* start, fixes, edits of the interval field, stop, and the two queues.    *)
(***************************************************************************)
NextEdits ==
  \/ UserStarts
  \/ UserStops
  \/ SensorFix
  \/ \E p \in clients, t \in {<<"3">>, <<"5">>} : handleIntervalChange(p, t)
  \/ PageReceives
  \/ AgentReceive

SpecEdits == InitUi /\ [][NextEdits]_vars

\* C32 as the specification states it: while the Agent forwards, once every
\* command and every message has been delivered, the interval of the
\* Agent's config is the valid interval the page shows.
C32_LiveEditReachesAgent ==
  \A p \in clients :
    ( /\ isCurrentlyTracking
      /\ page[p].mounted /\ page[p].isPageTracking
      /\ ~InvalidInterval(page[p].intervalSeconds)
      /\ toAgent = <<>> /\ inbox[p] = <<>> )
    => config.intervalSeconds = page[p].intervalSeconds

(***************************************************************************)
(* The Agent while forwarding stays enabled with a complete config: the    *)
(* sensor of a page delivers a fix every second, each posted as a          *)
(* location-update, and every fetch settles. MaxSteady bounds the fixes.   *)
(***************************************************************************)
MaxSteady == 4

\* the Agent after a start-tracking whose config has a device id and a
\* server URL (part_007:84-88)
InitSteady ==
  /\ \E cfg \in {c \in StartConfigs : c.deviceId # "" /\ c.serverUrl # ""} :
       config = Merge(InitialConfig, cfg)
  /\ isCurrentlyTracking = TRUE
  /\ lastAttemptedSendTimestamp = 0
  /\ isSendingLocationData = FALSE
  /\ now = Epoch
  /\ pending = {}
  /\ clients = {}
  /\ swActive = TRUE
  /\ toAgent = <<>>
  /\ inbox = [p \in Tabs |-> <<>>]
  /\ page = [p \in Tabs |-> ClosedPage]
  /\ script = 0
  /\ emitted = <<TrackingStatusMsg(TRUE, "ready")>>
  /\ fate = <<>>
  /\ callLog = <<>>
  /\ prevCallAt = NoTime
  /\ sessionCalls = 0
  /\ stoppedCalls = {}
  /\ localStorage = DefaultStorage

\* a second passes before the next fix
SteadyTick ==
  /\ Len(fate) < MaxSteady
  /\ now < Epoch + (Len(fate) + 1) * MsPerSecond
  /\ now' = now + MsPerSecond
  /\ UNCHANGED <<agentVars, pending, pageVars, script, inbox, obsVars>>

\* the location-update of the next fix is handled (part_007:93-97)
SteadySample ==
  /\ Len(fate) < MaxSteady
  /\ now = Epoch + (Len(fate) + 1) * MsPerSecond
  /\ LocationUpdate(Payload(Len(fate) + 1, config.serverUrl, config.deviceId))
  /\ UNCHANGED <<pageVars, script>>

NextSteady ==
  \/ SteadyTick
  \/ SteadySample
  \/ EnvRelayCompletes

\* Time passes, the fixes keep coming and every fetch settles.
SpecSteady ==
  /\ InitSteady /\ [][NextSteady]_vars
  /\ WF_vars(SteadyTick) /\ WF_vars(SteadySample) /\ WF_vars(EnvRelayCompletes)

\* C37: while forwarding stays enabled with a complete config, the Agent
\* never gets stuck dropping samples: a call in flight always settles and
\* frees the in-flight guard, and from every state with no call in flight
\* and fixes still to come for the length of the throttle window, a
\* further relay call is begun.
C37_AttemptsKeepComing ==
  /\ isSendingLocationData ~> ~isSendingLocationData
  /\ \A n \in 0..MaxSteady :
       ( /\ Len(callLog) = n
         /\ ~isSendingLocationData
         /\ Len(fate) + 2 <= MaxSteady )
       ~> Len(callLog) > n

\* three fixes were handled with an interval of 2 s: the first was sent, the
\* second fell into the throttle window, the third was sent after the
\* first call had failed
C37_Witness ==
  /\ config.intervalSeconds = 2
  /\ fate = <<"sent", "throttled", "sent">>
  /\ Len(callLog) = 2
  /\ callLog[1].terminal = <<"error">>

====
